---- MODULE Spec2Model ----
(***************************************************************************)
(* Daily briefing synthesis pipeline of z-pulse.                           *)
(*   backend/app/services/daily_briefing/generator.py  (generate, the      *)
(*     drafting loop, the citation normalizer, the style selector)         *)
(*   backend/app/services/daily_briefing/hotspots.py   (clustering)        *)
(*   backend/app/services/daily_briefing/guardrails.py (number guardrail)  *)
(*   backend/app/workers/ai_generate.py                (the daily worker)  *)
(*   backend/app/routers/admin.py                      (collection trigger)*)
(*                                                                         *)
(* The specifications share the variables:                                 *)
(*   SpecNorm     the citation normalizer applied to bounded documents,    *)
(*   SpecGen      one invocation of DailyBriefingGenerator.generate,       *)
(*   SpecStyle    consecutive daily generations of the worker,             *)
(*   Spec         the union of these three,                                *)
(*   SpecCache    concurrent invocations of get_or_compute_one_liners,     *)
(*   SpecHot      hotspot extraction and renumbering for larger pools,     *)
(*   SpecStrip    the number guardrail on by_the_numbers rows,             *)
(*   SpecSum      _summarize_per_article,                                  *)
(*   SpecPre      _prefilter_articles,                                     *)
(*   SpecCollect  collection triggers and their background tasks.          *)
(***************************************************************************)
EXTENDS Integers, Sequences, FiniteSets, TLC

VARIABLES
    nStage, nPool, nDoc, nOut, nOut2,
    pc, cfg, perArticle, attempt, raw, last, hist, lastReason, result, obj, calls,
    reports, dailyFormat, lastBriefing, workerLog,
    store, proc, llmCalls, seen, raced,
    fnIn, fnOut, fnStage,
    lock, task,
    jobs, jobLog

normVars == <<nStage, nPool, nDoc, nOut, nOut2>>
genVars == <<pc, cfg, perArticle, attempt, raw, last, hist, lastReason, result, obj, calls>>
styleVars == <<reports, dailyFormat, lastBriefing, workerLog>>
cacheVars == <<store, proc, llmCalls, seen, raced>>
pureVars == <<fnIn, fnOut, fnStage>>
lockVars == <<lock, task>>
queueVars == <<jobs, jobLog>>
extVars == <<cacheVars, pureVars, lockVars, queueVars>>
vars == <<normVars, genVars, styleVars, extVars>>

(***************************************************************************)
(* Bounds.                                                                 *)
(***************************************************************************)
MaxPool == 2
MaxCites == 3
MaxRows == 2

(* A citation value on which int(v) raises (a non-numeric JSON value).     *)
Junk == -1

(***************************************************************************)
(* Sequence helpers.                                                       *)
(***************************************************************************)
InSeq(s, v) == \E i \in DOMAIN s : s[i] = v

IndexOf(s, v) == CHOOSE i \in DOMAIN s : s[i] = v

SeqSet(s) == {s[i] : i \in DOMAIN s}

RECURSIVE FlattenRows(_)
FlattenRows(rows) ==
    IF rows = <<>> THEN <<>> ELSE Head(rows) \o FlattenRows(Tail(rows))

(***************************************************************************)
(* Source pools: entries {id, art}; art stands for the article the entry   *)
(* describes (account, title, url, date).                                  *)
(***************************************************************************)
PoolOf(m) == [i \in 1..m |-> [id |-> i, art |-> i]]

EmptyDoc ==
    [lede |-> <<>>, why |-> <<>>, big |-> <<>>, btn |-> <<>>,
     keywords |-> <<>>, rhw |-> <<>>, hotspots |-> <<>>, sources |-> <<>>]

(***************************************************************************)
(* _normalize_sources_and_citations                                        *)
(***************************************************************************)
(* int(v) inside try/except: a value that does not convert is skipped.     *)
IntOk(v) == v # Junk

(* consume(x): append every convertible id not seen before.                *)
RECURSIVE Consume(_, _)
Consume(used, x) ==
    IF x = <<>> THEN used
    ELSE LET v == Head(x)
         IN Consume(IF IntOk(v) /\ ~InSeq(used, v) THEN Append(used, v) ELSE used,
                    Tail(x))

RECURSIVE ConsumeRows(_, _)
ConsumeRows(used, rows) ==
    IF rows = <<>> THEN used
    ELSE ConsumeRows(Consume(used, Head(rows)), Tail(rows))

(* Variant: recent_hotspots is consumed first.                             *)
UsedOldHotspotsFirst(doc) ==
    LET u0 == ConsumeRows(<<>>, doc.hotspots)
        u1 == Consume(u0, doc.lede)
        u2 == Consume(u1, doc.why)
        u3 == Consume(u2, doc.big)
        u4 == ConsumeRows(u3, doc.btn)
        u5 == ConsumeRows(u4, doc.keywords)
    IN ConsumeRows(u5, doc.rhw)

(* The fixed traversal: lede, why, big picture, by_the_numbers, keywords,  *)
(* recent_hotwords, recent_hotspots.                                       *)
UsedOld(doc) ==
    LET u1 == Consume(<<>>, doc.lede)
        u2 == Consume(u1, doc.why)
        u3 == Consume(u2, doc.big)
        u4 == ConsumeRows(u3, doc.btn)
        u5 == ConsumeRows(u4, doc.keywords)
        u6 == ConsumeRows(u5, doc.rhw)
    IN ConsumeRows(u6, doc.hotspots)

(* id_to_source: a later pool entry with the same id replaces an earlier.  *)
PoolIds(pool) == {pool[k].id : k \in DOMAIN pool}

IdToSource(pool) ==
    [i \in PoolIds(pool) |->
        pool[CHOOSE k \in DOMAIN pool :
                /\ pool[k].id = i
                /\ \A j \in DOMAIN pool : pool[j].id = i => j <= k]]

(* The old ids that get a new id, in the order the new ids are given:      *)
(* mapping[old] is the position of old in this sequence.                   *)
RECURSIVE KeptOld(_, _)
KeptOld(used, ids) ==
    IF used = <<>> THEN <<>>
    ELSE IF Head(used) \in ids
         THEN <<Head(used)>> \o KeptOld(Tail(used), ids)
         ELSE KeptOld(Tail(used), ids)

(* Variant: every source of the pool is kept, cited or not.                *)
NewSourcesUnpruned(kept, pool) ==
    [k \in 1..Len(pool) |-> [id |-> k, art |-> pool[k].art]]

(* Variant: the kept sources keep their old ids.                           *)
NewSourcesOldIds(kept, pool) ==
    [k \in 1..Len(kept) |-> [id |-> kept[k], art |-> IdToSource(pool)[kept[k]].art]]

NewSources(kept, pool) ==
    [k \in 1..Len(kept) |-> [id |-> k, art |-> IdToSource(pool)[kept[k]].art]]

RECURSIVE RemapFrom(_, _, _)
RemapFrom(out, lst, kept) ==
    IF lst = <<>> THEN out
    ELSE LET v == Head(lst)
         IN IF ~IntOk(v) \/ ~InSeq(kept, v)
            THEN RemapFrom(out, Tail(lst), kept)
            ELSE IF InSeq(out, IndexOf(kept, v))
                 THEN RemapFrom(out, Tail(lst), kept)
                 ELSE RemapFrom(Append(out, IndexOf(kept, v)), Tail(lst), kept)

(* Variant: an id without a new id stays in the list as it is.             *)
RECURSIVE RemapListKeepUnknown(_, _)
RemapListKeepUnknown(lst, kept) ==
    IF lst = <<>> THEN <<>>
    ELSE LET v == Head(lst)
             nv == IF InSeq(kept, v) THEN IndexOf(kept, v) ELSE v
         IN <<nv>> \o SelectSeq(RemapListKeepUnknown(Tail(lst), kept),
                                LAMBDA x : x # nv)

RemapList(lst, kept) == RemapFrom(<<>>, lst, kept)

RemapRows(rows, kept) == [i \in DOMAIN rows |-> RemapList(rows[i], kept)]

Normalize(doc, pool) ==
    LET kept == KeptOld(UsedOld(doc), PoolIds(pool))
    IN [lede |-> RemapList(doc.lede, kept),
        why |-> RemapList(doc.why, kept),
        big |-> RemapList(doc.big, kept),
        btn |-> RemapRows(doc.btn, kept),
        keywords |-> RemapRows(doc.keywords, kept),
        rhw |-> RemapRows(doc.rhw, kept),
        hotspots |-> RemapRows(doc.hotspots, kept),
        sources |-> NewSources(kept, pool)]

(***************************************************************************)
(* SpecNorm: documents are built one citation at a time, then normalized,  *)
(* then normalized again with their own sources as the pool.               *)
(***************************************************************************)
CiteVals == {Junk} \cup (1..(MaxPool + 1))

FlatFields == {"lede", "why", "big"}
RowFields == {"btn", "keywords", "rhw", "hotspots"}

AllCites(doc) ==
    doc.lede \o doc.why \o doc.big \o FlattenRows(doc.btn)
        \o FlattenRows(doc.keywords) \o FlattenRows(doc.rhw)
        \o FlattenRows(doc.hotspots)

RowCount(doc) ==
    Len(doc.btn) + Len(doc.keywords) + Len(doc.rhw) + Len(doc.hotspots)

Idle == [stage |-> "idle"]

NoConfig == [nFin |-> 0, nSrc |-> 0, nExtra |-> 0, recent |-> FALSE, city |-> <<>>]

InitGenIdle ==
    /\ pc = "off"
    /\ cfg = NoConfig
    /\ perArticle = <<>>
    /\ attempt = 0
    /\ raw = [text |-> "", d |-> [kind |-> "none"], at |-> 0]
    /\ last = [parsed |-> FALSE]
    /\ hist = [firstParsed |-> FALSE, rejects |-> 0]
    /\ lastReason = ""
    /\ result = "none"
    /\ obj = [doc |-> EmptyDoc, pre |-> EmptyDoc, from |-> 0, exit |-> "", caught |-> FALSE,
            qual |-> {}, clustered |-> FALSE]
    /\ calls = 0

InitStyleIdle ==
    reports = <<>> /\ dailyFormat = "off" /\ lastBriefing = "off" /\ workerLog = <<>>

InitNormIdle ==
    /\ nStage = "off"
    /\ nPool = <<>>
    /\ nDoc = EmptyDoc
    /\ nOut = EmptyDoc
    /\ nOut2 = EmptyDoc

InitCacheIdle ==
    /\ store = <<>>
    /\ proc = <<>>
    /\ llmCalls = 0
    /\ seen = {}
    /\ raced = FALSE

InitPureIdle == fnIn = <<>> /\ fnOut = <<>> /\ fnStage = "off"

InitLockIdle == lock = FALSE /\ task = <<>>

InitQueueIdle == jobs = <<>> /\ jobLog = <<>>

InitExtIdle == InitCacheIdle /\ InitPureIdle /\ InitLockIdle /\ InitQueueIdle

InitNorm ==
    /\ nStage = "build"
    /\ nPool \in {PoolOf(m) : m \in 0..MaxPool}
    /\ nDoc = EmptyDoc
    /\ nOut = EmptyDoc
    /\ nOut2 = EmptyDoc
    /\ InitGenIdle
    /\ InitStyleIdle
    /\ InitExtIdle

AddFlatCite(f, v) ==
    /\ nStage = "build"
    /\ Len(AllCites(nDoc)) < MaxCites
    /\ nDoc' = [nDoc EXCEPT ![f] = Append(@, v)]
    /\ UNCHANGED <<nStage, nPool, nOut, nOut2, genVars, styleVars, extVars>>

AddRow(f) ==
    /\ nStage = "build"
    /\ RowCount(nDoc) < MaxRows
    /\ nDoc' = [nDoc EXCEPT ![f] = Append(@, <<>>)]
    /\ UNCHANGED <<nStage, nPool, nOut, nOut2, genVars, styleVars, extVars>>

AddRowCite(f, v) ==
    /\ nStage = "build"
    /\ Len(AllCites(nDoc)) < MaxCites
    /\ nDoc[f] # <<>>
    /\ nDoc' = [nDoc EXCEPT ![f][Len(nDoc[f])] = Append(@, v)]
    /\ UNCHANGED <<nStage, nPool, nOut, nOut2, genVars, styleVars, extVars>>

NormalizeDoc ==
    /\ nStage = "build"
    /\ nOut' = Normalize(nDoc, nPool)
    /\ nStage' = "normalized"
    /\ UNCHANGED <<nPool, nDoc, nOut2, genVars, styleVars, extVars>>

Renormalize ==
    /\ nStage = "normalized"
    /\ nOut2' = Normalize(nOut, nOut.sources)
    /\ nStage' = "renormalized"
    /\ UNCHANGED <<nPool, nDoc, nOut, genVars, styleVars, extVars>>

NextNorm ==
    \/ \E f \in FlatFields, v \in CiteVals : AddFlatCite(f, v)
    \/ \E f \in RowFields : AddRow(f)
    \/ \E f \in RowFields, v \in CiteVals : AddRowCite(f, v)
    \/ NormalizeDoc
    \/ Renormalize

SpecNorm == InitNorm /\ [][NextNorm]_vars

(***************************************************************************)
(* DailyBriefingGenerator.generate                                         *)
(***************************************************************************)
MaxFin == 2
MaxExtra == 1
MaxDraftCites == 2
MaxHot == 1
MaxHotIds == 3

(* range(3): the drafting loop's attempts.                                 *)
MaxAttempts == 3
(* recent_hotspots[:3] become the keywords, source_ids[:6] are kept.       *)
KeywordTop == 3
MaxSourceIds == 6
(* RECENT_HOTSPOTS_TOP_K, and the least number of clustering items.        *)
TopK == 8
MinClusterItems == 3
(* A common_issue draft has to cite sources of this many cities.           *)
MinCities == 2

(* What one LLM call can do.                                               *)
Outcomes == {"ok", "exception", "timeout", "empty", "malformed"}

(* Cities of _ZJ_CITIES found in "account title" of finance source i,      *)
(* three of the eleven standing for all: the sources are spread over the   *)
(* cities, or all come from one city.                                      *)
ZjCities == <<"hangzhou", "ningbo", "wenzhou">>

SourceCities(n, spread) ==
    [i \in 1..n |-> IF spread THEN {ZjCities[((i - 1) % Len(ZjCities)) + 1]}
                    ELSE {ZjCities[1]}]

FtKinds == {"", "exact", "novel"}
VisualFocus == {"common_issue", "high_impact_event"}

(* What the title contains: <<a county-level marker, a province-level      *)
(* marker, a city name>>.                                                  *)
TitleKinds ==
    {<<FALSE, FALSE, FALSE>>, <<TRUE, FALSE, FALSE>>, <<FALSE, TRUE, FALSE>>,
     <<TRUE, FALSE, TRUE>>}

NoDraft == [kind |-> "none"]
NoText == [text |-> "", d |-> NoDraft, at |-> 0]

SeqsUpTo(S, n) == UNION {[1..k -> S] : k \in 0..n}

DraftCiteCount(d) == Len(d.lede) + Len(d.why) + Len(d.big) + Len(FlattenRows(d.rhw))

CiteShapes(m) ==
    {c \in [lede : SeqsUpTo(1..(m + 1), 2),
            why : SeqsUpTo(1..(m + 1), 1),
            big : SeqsUpTo(1..(m + 1), 1),
            rhw : SeqsUpTo(SeqsUpTo(1..(m + 1), 1) \ {<<>>}, 1)] :
        DraftCiteCount(c) <= MaxDraftCites}

MkDraft(ft, vf, t, c) ==
    [kind |-> "draft", ft |-> ft, vf |-> vf, local |-> t[1], broad |-> t[2],
     hasCity |-> t[3], lede |-> c.lede, why |-> c.why, big |-> c.big, rhw |-> c.rhw]

Ascending(s) == \A i \in 1..(Len(s) - 1) : s[i] < s[i + 1]

(* The drafts the LLM may return for a pool of m ids: every focus topic,   *)
(* visual focus and title with each set of ids cited in the lede, and a    *)
(* plain draft with every shape of citation arrays over 1..m+1.            *)
Drafts(m, recent) ==
    {MkDraft(ft, vf, t, [lede |-> l, why |-> <<>>, big |-> <<>>, rhw |-> <<>>]) :
        ft \in (IF recent THEN FtKinds ELSE FtKinds \ {"exact"}),
        vf \in VisualFocus, t \in TitleKinds,
        l \in {x \in SeqsUpTo(1..(m + 1), 2) : Ascending(x)}}
    \cup
    {MkDraft("novel", "high_impact_event", <<FALSE, FALSE, FALSE>>, c) :
        c \in CiteShapes(m)}

(* _call_llm: the call sits in try/except; an exception or a timeout is    *)
(* logged and None comes back, which the caller turns into "".             *)
CallLlm(outcome, d, at) ==
    IF outcome \in {"exception", "timeout"}
    THEN [raised |-> FALSE, text |-> "", d |-> NoDraft, at |-> at]
    ELSE IF outcome = "empty"
    THEN [raised |-> FALSE, text |-> "", d |-> NoDraft, at |-> at]
    ELSE IF outcome = "malformed"
    THEN [raised |-> FALSE, text |-> "text", d |-> NoDraft, at |-> at]
    ELSE [raised |-> FALSE, text |-> "json", d |-> d, at |-> at]

TextOf(r) == [text |-> r.text, d |-> r.d, at |-> r.at]

(* extract_first_json: a dict, or None for text that holds no JSON object. *)
ExtractFirstJson(r) == IF r.text = "json" THEN r.d ELSE NoDraft

(* _is_topic_semantic_duplicate: an exact match answers without a call;    *)
(* otherwise the classifier is asked and any failure means "not duplicate".*)
(* called tells whether the classification call was made.                  *)
(* Variant: the classifier is asked even when the topic matches exactly.   *)
IsTopicSemanticDuplicateNoShortcut(ft, recent, outcome, verdict) ==
    IF ft = "" THEN [raised |-> FALSE, dup |-> FALSE, called |-> FALSE]
    ELSE IF ~recent THEN [raised |-> FALSE, dup |-> FALSE, called |-> FALSE]
    ELSE IF outcome = "ok" THEN [raised |-> FALSE, dup |-> verdict, called |-> TRUE]
    ELSE [raised |-> FALSE, dup |-> FALSE, called |-> TRUE]

IsTopicSemanticDuplicate(ft, recent, outcome, verdict) ==
    IF ft = "" THEN [raised |-> FALSE, dup |-> FALSE, called |-> FALSE]
    ELSE IF ~recent THEN [raised |-> FALSE, dup |-> FALSE, called |-> FALSE]
    ELSE IF ft = "exact" THEN [raised |-> FALSE, dup |-> TRUE, called |-> FALSE]
    ELSE IF outcome = "ok" THEN [raised |-> FALSE, dup |-> verdict, called |-> TRUE]
    ELSE [raised |-> FALSE, dup |-> FALSE, called |-> TRUE]

(* What the classifier call can answer.                                    *)
Verdicts == {<<"ok", TRUE>>, <<"ok", FALSE>>} \cup {<<o, FALSE>> : o \in Outcomes \ {"ok"}}

(* _is_focus_too_local_or_narrow                                           *)
CitedIds(d) == {n \in SeqSet(d.lede \o d.why \o d.big) : IntOk(n) /\ n > 0}

CitedCities(d, city) ==
    UNION {city[sid] : sid \in CitedIds(d) \cap DOMAIN city}

(* Variant: only the county-level marker is looked at.                     *)
IsFocusTooLocalOnly(d, city) == d.local /\ ~d.broad

IsFocusTooLocalOrNarrow(d, city) ==
    IF d.local /\ ~d.broad THEN TRUE
    ELSE IF d.vf = "common_issue" /\ Cardinality(CitedCities(d, city)) < MinCities
            /\ ~d.broad
    THEN TRUE
    ELSE IF d.vf = "high_impact_event" /\ d.local /\ ~(d.broad \/ d.hasCity)
    THEN TRUE
    ELSE FALSE

(* _summarize_per_article: the call sits in try/except, every source with  *)
(* an article gets one entry.                                              *)
SummarizeOne(sid, outcome) ==
    [raised |-> FALSE, entry |-> [source_id |-> sid]]

(* _build_sources_index_with_finance_first: finance ids 1..nSrc are kept,  *)
(* the other articles get nSrc+1, nSrc+2, ...                              *)
BuildSourcesIndex(nSrc, nExtra) == PoolOf(nSrc + nExtra)

(***************************************************************************)
(* Hotspots: cluster_recent_hotspots_llm and _extract_recent_hotspots.     *)
(***************************************************************************)
EventNames == {"", "e1"}

(* The events the clustering call may return: named events with any ids    *)
(* over 1..m+1, and events without a name.                                 *)
RawEvents(m) ==
    SeqsUpTo([name : EventNames \ {""}, ids : SeqsUpTo(1..(m + 1), MaxHotIds)]
             \cup [name : {""}, ids : {<<1, 2>>}], MaxHot)

(* Variant: an id is kept whether or not it was among the input items.     *)
RECURSIVE ValidIdsAnyInput(_, _, _)
ValidIdsAnyInput(out, ids, valid) ==
    IF ids = <<>> THEN out
    ELSE ValidIdsAnyInput(IF ~InSeq(out, Head(ids))
                          THEN Append(out, Head(ids)) ELSE out,
                          Tail(ids), valid)

RECURSIVE ValidIds(_, _, _)
ValidIds(out, ids, valid) ==
    IF ids = <<>> THEN out
    ELSE ValidIds(IF Head(ids) \in valid /\ ~InSeq(out, Head(ids))
                  THEN Append(out, Head(ids)) ELSE out,
                  Tail(ids), valid)

Take(s, n) == IF Len(s) <= n THEN s ELSE SubSeq(s, 1, n)

RECURSIVE ClusterValidate(_, _, _)
ClusterValidate(out, evs, valid) ==
    IF evs = <<>> \/ Len(out) >= TopK THEN out
    ELSE LET ev == Head(evs)
             sids == ValidIds(<<>>, ev.ids, valid)
         IN IF ev.name = "" \/ (\E i \in DOMAIN out : out[i].name = ev.name)
               \/ Len(sids) < 2
            THEN ClusterValidate(out, Tail(evs), valid)
            ELSE ClusterValidate(
                    Append(out, [name |-> ev.name, ids |-> Take(sids, MaxSourceIds)]),
                    Tail(evs), valid)

(* cluster_recent_hotspots_llm has no try/except round the call.           *)
ClusterRecentHotspotsLlm(outcome, evs, valid) ==
    IF valid = {} THEN [raised |-> FALSE, called |-> FALSE, events |-> <<>>]
    ELSE IF outcome \in {"exception", "timeout"}
    THEN [raised |-> TRUE, called |-> TRUE, events |-> <<>>]
    ELSE IF outcome \in {"empty", "malformed"}
    THEN [raised |-> FALSE, called |-> TRUE, events |-> <<>>]
    ELSE [raised |-> FALSE, called |-> TRUE,
          events |-> ClusterValidate(<<>>, evs, valid)]

(* _extract_recent_hotspots: a failed one-liner batch call is caught       *)
(* inside get_or_compute_one_liners, a tag that does not convert raises    *)
(* there; qual is the set of source ids whose one-liner passes the gate.   *)
OneLinerOutcomes == Outcomes \cup {"bad_tags"}

(* Variant: the clustering call is made however few articles qualify.      *)
ExtractRecentHotspotsNoFloor(h) ==
    IF h.ol = "bad_tags" THEN [raised |-> TRUE, called |-> FALSE, hot |-> <<>>]
    ELSE LET r == ClusterRecentHotspotsLlm(h.cl, h.evs, h.qual)
         IN IF r.raised THEN [raised |-> TRUE, called |-> r.called, hot |-> <<>>]
            ELSE [raised |-> FALSE, called |-> r.called,
                  hot |-> Take(r.events, TopK)]

ExtractRecentHotspots(h) ==
    IF h.ol = "bad_tags" THEN [raised |-> TRUE, called |-> FALSE, hot |-> <<>>]
    ELSE IF Cardinality(h.qual) < MinClusterItems
    THEN [raised |-> FALSE, called |-> FALSE, hot |-> <<>>]
    ELSE LET r == ClusterRecentHotspotsLlm(h.cl, h.evs, h.qual)
         IN IF r.raised THEN [raised |-> TRUE, called |-> r.called, hot |-> <<>>]
            ELSE [raised |-> FALSE, called |-> r.called,
                  hot |-> Take(r.events, TopK)]

(* Variant: the extraction is called without try/except.                   *)
HotspotStageUncaught(h) == ExtractRecentHotspots(h)

(* generate, step 3.5: the whole extraction sits in try/except.            *)
HotspotStage(h) ==
    LET r == ExtractRecentHotspots(h)
    IN IF r.raised THEN [raised |-> FALSE, hot |-> <<>>]
       ELSE [raised |-> FALSE, hot |-> r.hot]

(* What the hotspot stage can meet for a pool of m ids: a one-liner call   *)
(* that fails or scores every article low, a clustering call that fails,   *)
(* or events the clustering model returns (or would return, were it asked) *)
(* for the qualifying articles.                                            *)
FewEvents == {<<>>, <<[name |-> "e1", ids |-> <<1, 2>>]>>}

HotspotInputs(m) ==
    {[ol |-> o, cl |-> "ok", qual |-> {}, evs |-> <<>>] : o \in OneLinerOutcomes}
    \cup {[ol |-> "ok", cl |-> c, qual |-> 1..m, evs |-> <<>>] : c \in Outcomes}
    \cup {[ol |-> "ok", cl |-> "ok", qual |-> q, evs |-> e] :
            q \in {x \in SUBSET (1..m) : Cardinality(x) >= MinClusterItems},
            e \in RawEvents(m)}
    \cup {[ol |-> "ok", cl |-> "ok", qual |-> q, evs |-> e] :
            q \in {x \in SUBSET (1..m) : Cardinality(x) < MinClusterItems},
            e \in FewEvents}

(* _extract_today_keywords                                                 *)
ExtractTodayKeywords(hotRows) ==
    [i \in 1..(IF Len(hotRows) < KeywordTop THEN Len(hotRows) ELSE KeywordTop) |->
        Take(hotRows[i], MaxSourceIds)]

(* The document before step 4: the draft (or the wrapper built round an    *)
(* unparseable text), by_the_numbers and keywords emptied, hotspots added. *)
PreNormDoc(r, hot) ==
    LET d == ExtractFirstJson(r)
    IN IF d.kind = "draft"
       THEN [lede |-> d.lede, why |-> d.why, big |-> d.big, btn |-> <<>>,
             keywords |-> <<>>, rhw |-> d.rhw,
             hotspots |-> [i \in DOMAIN hot |-> hot[i].ids], sources |-> <<>>]
       ELSE [EmptyDoc EXCEPT !.hotspots = [i \in DOMAIN hot |-> hot[i].ids]]

FinalDoc(pre, pool) ==
    LET n == Normalize(pre, pool)
    IN [n EXCEPT !.keywords = ExtractTodayKeywords(n.hotspots)]

(***************************************************************************)
(* SpecGen: one invocation of generate.                                    *)
(*   raw      the text the rest of generate will read (NoText while no     *)
(*            call has answered in the current attempt)                    *)
(*   last     how the two checks judge the draft of the latest attempt     *)
(*   hist     whether the first call returned a parseable draft, and how   *)
(*            many drafts were judged duplicate or too local               *)
(*   calls    the number of drafting calls made                            *)
(*   obj      the returned document, with the document it was normalized   *)
(*            from, the attempt that wrote its draft, how the loop ended   *)
(*            whether the hotspot stage caught an exception, the source    *)
(*            ids that qualified for clustering and whether the clustering *)
(*            call was made                                                *)
(***************************************************************************)
Configs ==
    {c \in [nFin : 0..MaxFin, nSrc : 0..MaxFin, nExtra : 0..MaxExtra,
            recent : BOOLEAN, spread : BOOLEAN] : c.nSrc <= c.nFin}

NoObj == [doc |-> EmptyDoc, pre |-> EmptyDoc, from |-> 0, exit |-> "", caught |-> FALSE,
            qual |-> {}, clustered |-> FALSE]

NoLast == [parsed |-> FALSE]
NoHist == [firstParsed |-> FALSE, rejects |-> 0]

(* The two checks applied to draft d, the classifier answering v.          *)
Judge(d, v) ==
    [parsed |-> TRUE,
     topic |-> d.ft # "",
     dup |-> IsTopicSemanticDuplicate(d.ft, cfg.recent, v[1], v[2]).dup,
     exact |-> d.ft = "exact",
     called |-> IsTopicSemanticDuplicate(d.ft, cfg.recent, v[1], v[2]).called,
     failed |-> IsTopicSemanticDuplicate(d.ft, cfg.recent, v[1], v[2]).called
                    /\ v[1] # "ok",
     local |-> IsFocusTooLocalOrNarrow(d, cfg.city),
     common |-> d.vf = "common_issue",
     span |-> Cardinality(CitedCities(d, cfg.city)) >= MinCities,
     broad |-> d.broad]

InitGen ==
    /\ pc = "idle"
    /\ cfg = NoConfig
    /\ perArticle = <<>>
    /\ attempt = 0
    /\ raw = NoText
    /\ last = NoLast
    /\ hist = NoHist
    /\ lastReason = ""
    /\ result = "none"
    /\ obj = NoObj
    /\ calls = 0
    /\ InitNormIdle
    /\ InitStyleIdle
    /\ InitExtIdle

(* generate is called: lines 99-106.                                       *)
Start(c) ==
    /\ pc = "idle"
    /\ cfg' = [nFin |-> c.nFin, nSrc |-> c.nSrc, nExtra |-> c.nExtra,
               recent |-> c.recent, city |-> SourceCities(c.nSrc, c.spread)]
    /\ IF c.nFin = 0
       THEN /\ pc' = "done"
            /\ result' = "null"
       ELSE /\ pc' = "summarize"
            /\ result' = "none"
    /\ UNCHANGED <<perArticle, attempt, raw, last, hist, lastReason, obj, calls,
                   normVars, styleVars, extVars>>

(* One per-article summary call: lines 613-664.                            *)
Summarize(outcome) ==
    /\ pc = "summarize"
    /\ Len(perArticle) < cfg.nSrc
    /\ LET r == SummarizeOne(Len(perArticle) + 1, outcome)
       IN IF r.raised
          THEN /\ pc' = "done"
               /\ result' = "raised"
               /\ UNCHANGED perArticle
          ELSE /\ perArticle' = Append(perArticle, r.entry)
               /\ UNCHANGED <<pc, result>>
    /\ UNCHANGED <<cfg, attempt, raw, last, hist, lastReason, obj, calls,
                   normVars, styleVars, extVars>>

(* Lines 113-127: the loop is entered.                                     *)
EnterLoop ==
    /\ pc = "summarize"
    /\ Len(perArticle) = cfg.nSrc
    /\ pc' = "draft"
    /\ UNCHANGED <<cfg, perArticle, attempt, raw, last, hist, lastReason, result, obj,
                   calls, normVars, styleVars, extVars>>

(* A call that returned a parseable draft.                                 *)
Parsed(d, v, rejected) ==
    /\ attempt' = attempt + 1
    /\ calls' = calls + 1
    /\ last' = Judge(d, v)
    /\ hist' = [firstParsed |-> hist.firstParsed \/ attempt = 0,
                rejects |-> hist.rejects + (IF rejected THEN 1 ELSE 0)]

(* Variant: the text of the last attempt is dropped when the loop runs out.*)
ContinueDropLast(r) ==
    /\ pc' = IF attempt + 1 < MaxAttempts THEN "draft" ELSE "exhausted"
    /\ raw' = NoText

(* Variant: the loop has no bound.                                         *)
ContinueUnbounded(r) ==
    /\ pc' = "draft"
    /\ raw' = NoText

(* continue: the next attempt overwrites raw, or the loop runs out and     *)
(* raw is what generate goes on with.                                      *)
Continue(r) ==
    IF attempt + 1 < MaxAttempts
    THEN /\ pc' = "draft"
         /\ raw' = NoText
    ELSE /\ pc' = "exhausted"
         /\ raw' = TextOf(r)

(* Lines 146-160 and 175-176: the call gives nothing, the loop ends and    *)
(* generate returns None.                                                  *)
DraftCallFails(outcome) ==
    /\ pc = "draft"
    /\ LET r == CallLlm(outcome, NoDraft, attempt + 1)
       IN /\ r.text = "" \/ r.raised
          /\ raw' = TextOf(r)
          /\ result' = IF r.raised THEN "raised" ELSE "null"
    /\ pc' = "done"
    /\ calls' = calls + 1
    /\ attempt' = attempt + 1
    /\ last' = NoLast
    /\ UNCHANGED <<cfg, perArticle, hist, lastReason, obj, normVars, styleVars, extVars>>

(* Lines 161-163: text without a JSON object ends the loop.                *)
DraftUnparseable ==
    /\ pc = "draft"
    /\ raw' = TextOf(CallLlm("malformed", NoDraft, attempt + 1))
    /\ pc' = "unparseable"
    /\ calls' = calls + 1
    /\ attempt' = attempt + 1
    /\ last' = NoLast
    /\ UNCHANGED <<cfg, perArticle, hist, lastReason, result, obj, normVars,
                   styleVars, extVars>>

(* Lines 164-166: no focus_topic, the next attempt is made.                *)
DraftNoTopic(d) ==
    /\ pc = "draft"
    /\ d.ft = ""
    /\ Parsed(d, <<"ok", FALSE>>, FALSE)
    /\ Continue(CallLlm("ok", d, attempt + 1))
    /\ UNCHANGED <<cfg, perArticle, lastReason, result, obj, normVars, styleVars, extVars>>

(* Lines 167-169: RetryDuplicate.                                          *)
DraftDuplicate(d, v) ==
    /\ pc = "draft"
    /\ d.ft # ""
    /\ IsTopicSemanticDuplicate(d.ft, cfg.recent, v[1], v[2]).dup
    /\ lastReason' = "semantic_dup"
    /\ Parsed(d, v, TRUE)
    /\ Continue(CallLlm("ok", d, attempt + 1))
    /\ UNCHANGED <<cfg, perArticle, result, obj, normVars, styleVars, extVars>>

(* Lines 170-172: RetryTooLocal.                                           *)
DraftTooLocal(d, v) ==
    /\ pc = "draft"
    /\ d.ft # ""
    /\ ~IsTopicSemanticDuplicate(d.ft, cfg.recent, v[1], v[2]).dup
    /\ IsFocusTooLocalOrNarrow(d, cfg.city)
    /\ lastReason' = "too_local"
    /\ Parsed(d, v, TRUE)
    /\ Continue(CallLlm("ok", d, attempt + 1))
    /\ UNCHANGED <<cfg, perArticle, result, obj, normVars, styleVars, extVars>>

(* Lines 173-174: Done.                                                    *)
DraftAccepted(d, v) ==
    /\ pc = "draft"
    /\ d.ft # ""
    /\ ~IsTopicSemanticDuplicate(d.ft, cfg.recent, v[1], v[2]).dup
    /\ ~IsFocusTooLocalOrNarrow(d, cfg.city)
    /\ raw' = TextOf(CallLlm("ok", d, attempt + 1))
    /\ lastReason' = ""
    /\ pc' = "accepted"
    /\ Parsed(d, v, FALSE)
    /\ UNCHANGED <<cfg, perArticle, result, obj, normVars, styleVars, extVars>>

(* Lines 180-281: the pools are merged, the hotspots extracted, the        *)
(* citations normalized, the keywords filled in, and generate returns.     *)
Assemble(h) ==
    /\ pc \in {"accepted", "exhausted", "unparseable"}
    /\ LET pool == BuildSourcesIndex(cfg.nSrc, cfg.nExtra)
           hs == HotspotStage(h)
           pre == PreNormDoc(raw, hs.hot)
           ex == ExtractRecentHotspots(h)
       IN /\ obj' = [doc |-> FinalDoc(pre, pool), pre |-> pre, from |-> raw.at,
                     exit |-> pc, caught |-> ex.raised, qual |-> h.qual,
                     clustered |-> ex.called]
          /\ result' = IF hs.raised THEN "raised" ELSE "doc"
    /\ pc' = "done"
    /\ raw' = NoText
    /\ last' = NoLast
    /\ UNCHANGED <<cfg, perArticle, attempt, hist, lastReason, calls, normVars,
                   styleVars, extVars>>

NextGen ==
    \/ \E c \in Configs : Start(c)
    \/ \E o \in Outcomes : Summarize(o)
    \/ EnterLoop
    \/ \E o \in Outcomes : DraftCallFails(o)
    \/ DraftUnparseable
    \/ /\ pc = "draft"
       /\ \E d \in Drafts(cfg.nSrc + cfg.nExtra, cfg.recent) : DraftNoTopic(d)
    \/ /\ pc = "draft"
       /\ \E d \in Drafts(cfg.nSrc + cfg.nExtra, cfg.recent), v \in Verdicts :
             DraftDuplicate(d, v)
    \/ /\ pc = "draft"
       /\ \E d \in Drafts(cfg.nSrc + cfg.nExtra, cfg.recent), v \in Verdicts :
             DraftTooLocal(d, v)
    \/ /\ pc = "draft"
       /\ \E d \in Drafts(cfg.nSrc + cfg.nExtra, cfg.recent), v \in Verdicts :
             DraftAccepted(d, v)
    \/ /\ pc \in {"accepted", "exhausted", "unparseable"}
       /\ \E h \in HotspotInputs(cfg.nSrc + cfg.nExtra) : Assemble(h)

SpecGen == InitGen /\ [][NextGen]_vars

(***************************************************************************)
(* Focus style: _choose_focus_style and the worker that feeds it the       *)
(* styles of the last reports.                                             *)
(***************************************************************************)
MaxDays == 4

Styles == {"data_snapshot", "action_chain", "what_changed", "timeline", "qna_gaps"}

Signals == [has_num : BOOLEAN, has_time : BOOLEAN, has_change : BOOLEAN,
            has_process : BOOLEAN, has_q : BOOLEAN]

Ranked(sig) ==
    IF sig.has_q /\ sig.has_process
    THEN <<"qna_gaps", "action_chain", "timeline", "data_snapshot", "what_changed">>
    ELSE IF sig.has_time /\ sig.has_process
    THEN <<"timeline", "action_chain", "data_snapshot", "what_changed", "qna_gaps">>
    ELSE IF sig.has_change
    THEN <<"what_changed", "data_snapshot", "timeline", "action_chain", "qna_gaps">>
    ELSE IF sig.has_process
    THEN <<"action_chain", "timeline", "data_snapshot", "qna_gaps", "what_changed">>
    ELSE IF sig.has_num
    THEN <<"data_snapshot", "timeline", "what_changed", "action_chain", "qna_gaps">>
    ELSE <<"data_snapshot", "action_chain", "timeline", "what_changed", "qna_gaps">>

RECURSIVE FirstNotIn(_, _, _)
FirstNotIn(ranked, avoid, default) ==
    IF ranked = <<>> THEN default
    ELSE IF Head(ranked) \notin avoid THEN Head(ranked)
    ELSE FirstNotIn(Tail(ranked), avoid, default)

(* Variant: only the newest style is avoided.                              *)
ChooseFocusStyleLastOnly(sig, recentFocusStyles) ==
    FirstNotIn(Ranked(sig), SeqSet(Take(recentFocusStyles, 1)), Ranked(sig)[1])

(* recent_main[:2] is avoided; ranked[0] is the fallback.                  *)
ChooseFocusStyle(sig, recentFocusStyles) ==
    LET ranked == Ranked(sig)
        avoid == SeqSet(Take(recentFocusStyles, 2))
    IN FirstNotIn(ranked, avoid, ranked[1])

(* reports[n] is the daily report stored for day n: a focus style, "voice" *)
(* for a report in the old format, "none" when the day has no report.      *)
NoReport == "none"
VoiceReport == "voice"

(* The last k reports dated before day n, newest first.                    *)
RECURSIVE LastReports(_, _, _)
LastReports(reps, n, k) ==
    IF n <= 1 \/ k = 0 THEN <<>>
    ELSE IF reps[n - 1] = NoReport THEN LastReports(reps, n - 1, k)
    ELSE <<reps[n - 1]>> \o LastReports(reps, n - 1, k - 1)

RecentLimit == 3

(* Lines 203-226 of the worker: the focus_style of each of them, if any.   *)
RecentFocusStyles(reps, n) ==
    SelectSeq(LastReports(reps, n, RecentLimit), LAMBDA r : r \in Styles)

InitStyle ==
    /\ reports = <<>>
    /\ dailyFormat \in {"smart_brevity", "voice"}
    /\ lastBriefing = "none"
    /\ workerLog = <<>>
    /\ InitNormIdle
    /\ InitGenIdle
    /\ InitExtIdle

(* workerLog lists the generate_daily_report calls made on the current     *)
(* AIWorker instance: whether the day had finance-related articles, what   *)
(* generate returned ("none" when it was not called) and what was stored.  *)
Call(hasFinance, briefing, stored) ==
    [finance |-> hasFinance, briefing |-> briefing, stored |-> stored]

(* Variant: a null briefing falls back to the voice format for this call   *)
(* only; self.daily_format is left as it was.                              *)
GenerateDailyReportLocalFallback(hasFinance, sig, briefing, voiceOk) ==
    /\ dailyFormat # "off"
    /\ Len(reports) < MaxDays
    /\ LET n == Len(reports) + 1
           style == ChooseFocusStyle(sig, RecentFocusStyles(reports, n))
       IN IF ~hasFinance
          THEN /\ reports' = Append(reports, NoReport)
               /\ lastBriefing' = "none"
          ELSE IF dailyFormat = "smart_brevity" /\ briefing
          THEN /\ reports' = Append(reports, style)
               /\ lastBriefing' = "doc"
          ELSE /\ lastBriefing' = IF dailyFormat = "smart_brevity" THEN "null" ELSE "none"
               /\ reports' = Append(reports, IF voiceOk THEN VoiceReport ELSE NoReport)
    /\ UNCHANGED dailyFormat
    /\ workerLog' = Append(workerLog, Call(hasFinance, lastBriefing', reports'[Len(reports')]))
    /\ UNCHANGED <<normVars, genVars, extVars>>

(* generate_daily_report for the day after the last one: without finance   *)
(* articles nothing is stored; a briefing is stored with the style chosen  *)
(* for it; a null briefing switches the worker to the voice format, whose  *)
(* report carries no focus_style and is stored if its calls succeed.       *)
(* lastBriefing is what generate returned in the latest invocation:        *)
(* "doc", "null", or "none" when generate was not called.                  *)
GenerateDailyReport(hasFinance, sig, briefing, voiceOk) ==
    /\ dailyFormat # "off"
    /\ Len(reports) < MaxDays
    /\ LET n == Len(reports) + 1
           style == ChooseFocusStyle(sig, RecentFocusStyles(reports, n))
       IN IF ~hasFinance
          THEN /\ reports' = Append(reports, NoReport)
               /\ lastBriefing' = "none"
               /\ UNCHANGED dailyFormat
          ELSE IF dailyFormat = "smart_brevity" /\ briefing
          THEN /\ reports' = Append(reports, style)
               /\ lastBriefing' = "doc"
               /\ UNCHANGED dailyFormat
          ELSE /\ dailyFormat' = "voice"
               /\ lastBriefing' = IF dailyFormat = "smart_brevity" THEN "null" ELSE "none"
               /\ reports' = Append(reports, IF voiceOk THEN VoiceReport ELSE NoReport)
    /\ workerLog' = Append(workerLog, Call(hasFinance, lastBriefing', reports'[Len(reports')]))
    /\ UNCHANGED <<normVars, genVars, extVars>>

(* A new worker process builds a new AIWorker, which reads                 *)
(* DAILY_REPORT_FORMAT afresh.                                             *)
WorkerRestart ==
    /\ dailyFormat = "voice"
    /\ dailyFormat' = "smart_brevity"
    /\ workerLog' = <<>>
    /\ UNCHANGED <<reports, lastBriefing, normVars, genVars, extVars>>

NextStyle ==
    \/ \E hasFinance \in BOOLEAN, sig \in Signals, briefing \in BOOLEAN,
          voiceOk \in BOOLEAN : GenerateDailyReport(hasFinance, sig, briefing, voiceOk)
    \/ WorkerRestart

SpecStyle == InitStyle /\ [][NextStyle]_vars

(***************************************************************************)
(* SpecCache: get_or_compute_one_liners and the article_one_liners table.  *)
(*   store     the table: how many rows hold each (article_id,             *)
(*             prompt_version, value); the table has a plain index on      *)
(*             (article_id, prompt_version), no unique constraint          *)
(*   proc      the invocations in flight, one per caller                   *)
(*   llmCalls  the number of calls made to the client                      *)
(*   seen      what the first completed invocation returned for each       *)
(*             (article_id, prompt_version)                                *)
(*   raced     whether an invocation ever began while another was running  *)
(* A value stands for (one_liner, tags, keep); "t" is the row written when *)
(* the model gave nothing for the article (title, tags 0), "bad" a tag     *)
(* that int() rejects.  All articles of an invocation fit one batch.       *)
(***************************************************************************)
MaxArt == 2
MaxInv == 2

Procs == {1, 2}
Versions == {"v1", "v2"}
LlmVals == {"a", "b"}
RowVals == LlmVals \cup {"t"}
Rows == [aid : 1..MaxArt, ver : Versions, val : RowVals]

NoProc ==
    [pc |-> "idle", n |-> 0, arts |-> {}, ver |-> "v1", need |-> {}, res |-> <<>>,
     called |-> {}, had |-> {}, out |-> <<>>, omitted |-> {}, lost |-> {},
     prior |-> {}, priorKept |-> {}]

RowsOf(st, a, v) == [x \in RowVals |-> st[[aid |-> a, ver |-> v, val |-> x]]]

RowCountOf(st, a, v) ==
    st[[aid |-> a, ver |-> v, val |-> "a"]] + st[[aid |-> a, ver |-> v, val |-> "b"]]
        + st[[aid |-> a, ver |-> v, val |-> "t"]]

Invocations == proc[1].n + proc[2].n

InitCache ==
    /\ store = [r \in Rows |-> 0]
    /\ proc = [q \in Procs |-> NoProc]
    /\ llmCalls = 0
    /\ seen = {}
    /\ raced = FALSE
    /\ fnStage = "off" /\ fnIn = <<>> /\ fnOut = <<>>
    /\ InitLockIdle /\ InitQueueIdle
    /\ InitNormIdle
    /\ InitGenIdle
    /\ InitStyleIdle

(* What the invocations that returned before this one leave behind: the   *)
(* articles they were given under the version, and those of them whose     *)
(* row was written.                                                        *)
PriorOf(arts, v) ==
    {a \in arts : \E o \in Procs :
        proc[o].pc = "done" /\ proc[o].ver = v /\ a \in proc[o].arts}

PriorKeptOf(arts, v) ==
    {a \in arts : \E o \in Procs :
        /\ proc[o].pc = "done" /\ proc[o].ver = v
        /\ a \in proc[o].arts \ proc[o].lost}

(* Variant: the cache is not consulted.                                    *)
BeginNoCache(q, arts, v) ==
    /\ proc[q].pc \in {"idle", "done", "raised"}
    /\ Invocations < MaxInv
    /\ arts # {}
    /\ proc' = [proc EXCEPT ![q] =
          [pc |-> "call", n |-> proc[q].n + 1, arts |-> arts, ver |-> v,
           need |-> arts, res |-> <<>>, called |-> {},
           had |-> {a \in arts : \E e \in seen : e.aid = a /\ e.ver = v},
           out |-> <<>>, omitted |-> {}, lost |-> {},
           prior |-> PriorOf(arts, v), priorKept |-> PriorKeptOf(arts, v)]]
    /\ raced' = (raced \/ \E o \in Procs \ {q} : proc[o].pc \in {"call", "write", "read"})
    /\ UNCHANGED <<store, llmCalls, seen, pureVars, lockVars, queueVars, normVars, genVars,
                   styleVars>>

(* Lines 117-139: the cache is read, the articles without a row are left.  *)
Begin(q, arts, v) ==
    /\ proc[q].pc \in {"idle", "done", "raised"}
    /\ Invocations < MaxInv
    /\ arts # {}
    /\ LET need == {a \in arts : RowCountOf(store, a, v) = 0}
       IN proc' = [proc EXCEPT ![q] =
              [pc |-> IF need = {} THEN "read" ELSE "call",
               n |-> proc[q].n + 1, arts |-> arts, ver |-> v, need |-> need, res |-> <<>>,
               called |-> {},
               had |-> {a \in arts : \E e \in seen : e.aid = a /\ e.ver = v},
               out |-> <<>>, omitted |-> {}, lost |-> {},
               prior |-> PriorOf(arts, v), priorKept |-> PriorKeptOf(arts, v)]]
    /\ raced' = (raced \/ \E o \in Procs \ {q} : proc[o].pc \in {"call", "write", "read"})
    /\ UNCHANGED <<store, llmCalls, seen, pureVars, lockVars, queueVars, normVars, genVars,
                   styleVars>>

(* Lines 147-188: one call for the batch; a call that fails leaves an      *)
(* empty result map.                                                       *)
CallBatch(q, ok, res) ==
    /\ proc[q].pc = "call"
    /\ llmCalls' = llmCalls + 1
    /\ proc' = [proc EXCEPT ![q].pc = "write",
                            ![q].called = proc[q].need,
                            ![q].res = IF ok THEN res
                                       ELSE [a \in proc[q].need |-> "t"],
                            ![q].omitted = IF ok THEN {a \in proc[q].need : res[a] = "t"}
                                           ELSE proc[q].need]
    /\ UNCHANGED <<store, seen, raced, pureVars, lockVars, queueVars, normVars, genVars,
                   styleVars>>

(* Variant: the row to update is looked up by article_id alone.            *)
WriteRowAnyVersion(q, dbOk, updOk) ==
    /\ proc[q].pc = "write"
    /\ LET a == CHOOSE x \in proc[q].need : \A y \in proc[q].need : x <= y
           v == proc[q].ver
           val == proc[q].res[a]
           new == [aid |-> a, ver |-> v, val |-> val]
           rest == proc[q].need \ {a}
       IN IF val = "bad"
          THEN /\ proc' = [proc EXCEPT ![q].pc = "raised", ![q].res = <<>>,
                                       ![q].need = {}]
               /\ UNCHANGED store
          ELSE /\ proc' = [proc EXCEPT ![q].need = rest,
                                       ![q].res = [x \in rest |-> proc[q].res[x]],
                                       ![q].pc = IF rest = {} THEN "read" ELSE "write",
                                       ![q].lost = IF dbOk \/ (updOk /\ \E r \in Rows : r.aid = a /\ store[r] > 0)
                                                   THEN @ ELSE @ \cup {a}]
               /\ IF dbOk
                  THEN store' = [store EXCEPT ![new] = @ + 1]
                  ELSE IF updOk /\ \E r \in Rows : r.aid = a /\ store[r] > 0
                  THEN \E old \in {r \in Rows : r.aid = a /\ store[r] > 0} :
                          store' = [[store EXCEPT ![old] = @ - 1] EXCEPT ![new] = @ + 1]
                  ELSE UNCHANGED store
    /\ UNCHANGED <<llmCalls, seen, raced, pureVars, lockVars, queueVars, normVars, genVars,
                   styleVars>>

(* Variant: nothing is stored for an article the model gave nothing for.   *)
WriteRowSkipEmpty(q, dbOk, updOk) ==
    /\ proc[q].pc = "write"
    /\ LET a == CHOOSE x \in proc[q].need : \A y \in proc[q].need : x <= y
           v == proc[q].ver
           val == proc[q].res[a]
           new == [aid |-> a, ver |-> v, val |-> val]
           rest == proc[q].need \ {a}
       IN IF val = "bad"
          THEN /\ proc' = [proc EXCEPT ![q].pc = "raised", ![q].res = <<>>,
                                       ![q].need = {}]
               /\ UNCHANGED store
          ELSE /\ proc' = [proc EXCEPT ![q].need = rest,
                                       ![q].res = [x \in rest |-> proc[q].res[x]],
                                       ![q].pc = IF rest = {} THEN "read" ELSE "write",
                                       ![q].lost = IF dbOk \/ (updOk /\ RowCountOf(store, a, v) > 0)
                                                   THEN @ ELSE @ \cup {a}]
               /\ IF val = "t"
                  THEN UNCHANGED store
                  ELSE IF dbOk
                  THEN store' = [store EXCEPT ![new] = @ + 1]
                  ELSE IF updOk /\ RowCountOf(store, a, v) > 0
                  THEN \E old \in {r \in Rows : r.aid = a /\ r.ver = v /\ store[r] > 0} :
                          store' = [[store EXCEPT ![old] = @ - 1] EXCEPT ![new] = @ + 1]
                  ELSE UNCHANGED store
    /\ UNCHANGED <<llmCalls, seen, raced, pureVars, lockVars, queueVars, normVars, genVars,
                   styleVars>>

(* Lines 190-244 for one article of the batch: the row is added and        *)
(* committed; if that raises, the session is rolled back and a row found   *)
(* for the key is updated instead.                                         *)
WriteRow(q, dbOk, updOk) ==
    /\ proc[q].pc = "write"
    /\ LET a == CHOOSE x \in proc[q].need : \A y \in proc[q].need : x <= y
           v == proc[q].ver
           val == proc[q].res[a]
           new == [aid |-> a, ver |-> v, val |-> val]
           rest == proc[q].need \ {a}
       IN IF val = "bad"
          THEN /\ proc' = [proc EXCEPT ![q].pc = "raised", ![q].res = <<>>,
                                       ![q].need = {}]
               /\ UNCHANGED store
          ELSE /\ proc' = [proc EXCEPT ![q].need = rest,
                                       ![q].res = [x \in rest |-> proc[q].res[x]],
                                       ![q].pc = IF rest = {} THEN "read" ELSE "write",
                                       ![q].lost = IF dbOk \/ (updOk /\ RowCountOf(store, a, v) > 0)
                                                   THEN @ ELSE @ \cup {a}]
               /\ IF dbOk
                  THEN store' = [store EXCEPT ![new] = @ + 1]
                  ELSE IF updOk /\ RowCountOf(store, a, v) > 0
                  THEN \E old \in {r \in Rows : r.aid = a /\ r.ver = v /\ store[r] > 0} :
                          store' = [[store EXCEPT ![old] = @ - 1] EXCEPT ![new] = @ + 1]
                  ELSE UNCHANGED store
    /\ UNCHANGED <<llmCalls, seen, raced, pureVars, lockVars, queueVars, normVars, genVars,
                   styleVars>>

(* Lines 246-267: the rows of the articles are read and returned.          *)
Finish(q) ==
    /\ proc[q].pc = "read"
    /\ LET v == proc[q].ver
           out == [a \in proc[q].arts |-> RowsOf(store, a, v)]
       IN /\ proc' = [proc EXCEPT ![q].pc = "done", ![q].out = out]
          /\ seen' = seen \cup
                {[aid |-> a, ver |-> v, rows |-> out[a]] :
                    a \in {x \in proc[q].arts :
                              RowCountOf(store, x, v) > 0
                              /\ ~\E e \in seen : e.aid = x /\ e.ver = v}}
    /\ UNCHANGED <<store, llmCalls, raced, pureVars, lockVars, queueVars, normVars, genVars,
                   styleVars>>

NextCache ==
    \/ \E q \in Procs, arts \in SUBSET (1..MaxArt), v \in Versions : Begin(q, arts, v)
    \/ \E q \in Procs, ok \in BOOLEAN :
          \E res \in [proc[q].need -> LlmVals \cup {"t", "bad"}] : CallBatch(q, ok, res)
    \/ \E q \in Procs, dbOk \in BOOLEAN, updOk \in BOOLEAN : WriteRow(q, dbOk, updOk)
    \/ \E q \in Procs : Finish(q)

SpecCache == InitCache /\ [][NextCache]_vars

(***************************************************************************)
(* SpecHot: steps 3.5 to 5 of generate for a combined pool of up to        *)
(* MaxHotPool sources, so that the pool can hold sources that did not      *)
(* qualify for the clustering input.                                       *)
(*   fnIn   the pool size, the draft's lede citations, the hotspot inputs  *)
(*   fnOut  the hotspots extracted, then the document before and after     *)
(*          _normalize_sources_and_citations                               *)
(***************************************************************************)
MaxHotPool == 4

HotLedes(m) == {<<>>, <<m>>, <<m + 1, 2>>}

HotDraft(lede) ==
    CallLlm("ok", MkDraft("novel", "high_impact_event", <<FALSE, FALSE, FALSE>>,
                          [lede |-> lede, why |-> <<>>, big |-> <<>>, rhw |-> <<>>]), 1)

InitHot ==
    /\ fnStage = "hot_in"
    /\ fnIn \in {[m |-> m, lede |-> l, h |-> h] :
                    m \in MinClusterItems..MaxHotPool,
                    l \in HotLedes(MaxHotPool),
                    h \in HotspotInputs(MaxHotPool)}
    /\ fnIn.lede \in HotLedes(fnIn.m)
    /\ fnIn.h \in HotspotInputs(fnIn.m)
    /\ fnOut = <<>>
    /\ InitNormIdle /\ InitGenIdle /\ InitStyleIdle /\ InitCacheIdle /\ InitLockIdle /\ InitQueueIdle

(* generate, step 3.5                                                      *)
ExtractHot ==
    /\ fnStage = "hot_in"
    /\ fnOut' = [hot |-> HotspotStage(fnIn.h).hot]
    /\ fnStage' = "hot_ex"
    /\ UNCHANGED <<fnIn, normVars, genVars, styleVars, cacheVars, lockVars,
                   queueVars>>

(* generate, steps 4 and 5                                                 *)
NormalizeHot ==
    /\ fnStage = "hot_ex"
    /\ LET pre == PreNormDoc(TextOf(HotDraft(fnIn.lede)), fnOut.hot)
       IN fnOut' = [pre |-> pre, doc |-> FinalDoc(pre, BuildSourcesIndex(fnIn.m, 0))]
    /\ fnStage' = "hot_done"
    /\ UNCHANGED <<fnIn, normVars, genVars, styleVars, cacheVars, lockVars,
                   queueVars>>

NextHot == ExtractHot \/ NormalizeHot

SpecHot == InitHot /\ [][NextHot]_vars

(***************************************************************************)
(* SpecStrip: extract_number_spans, normalize_number_string and            *)
(* strip_unverified_numbers_from_by_the_numbers.  A text is a sequence of  *)
(* characters of NumChars: two digits, a blank, "w" for the unit wan, "y"  *)
(* and "Y" for the half-width and the full-width yuan sign, and "x" for a  *)
(* character that is none of these.  Over these characters                 *)
(* the thousands comma, the decimal point and the percent and date         *)
(* patterns of the code never match.                                       *)
(*   fnIn   the source material and the by_the_numbers rows                *)
(*   fnOut  the allowed numbers, then the rows kept and the drop records   *)
(***************************************************************************)
MaxTextLen == 2
MaxBtnRows == 2

Digits == {"5", "8"}
Blanks == {" "}
Currency == {"y", "Y"}
Units == {"w"}
NumChars == Digits \cup Blanks \cup Currency \cup Units \cup {"x"}

(* The end of the longest run of characters of S that starts at i.         *)
RunEnd(t, i, S) ==
    CHOOSE j \in i..(Len(t) + 1) :
        /\ \A k \in i..(j - 1) : t[k] \in S
        /\ j = Len(t) + 1 \/ t[j] \notin S

(* (?:y|Y)?\s*\d+\s*(?:w)? tried at position i: the position after the     *)
(* match, or 0 when there is none.                                         *)
MatchAt(t, i) ==
    LET a == IF t[i] \in Currency THEN i + 1 ELSE i
        b == RunEnd(t, a, Blanks)
        c == RunEnd(t, b, Digits)
        d == RunEnd(t, c, Blanks)
        e == IF d <= Len(t) /\ t[d] \in Units THEN d + 1 ELSE d
    IN IF c = b THEN 0 ELSE e

(* str.strip                                                               *)
Strip(t) ==
    IF \A k \in DOMAIN t : t[k] \in Blanks THEN <<>>
    ELSE LET lo == RunEnd(t, 1, Blanks)
             hi == CHOOSE j \in DOMAIN t :
                      t[j] \notin Blanks /\ \A k \in (j + 1)..Len(t) : t[k] \in Blanks
         IN SubSeq(t, lo, hi)

(* re.finditer with the seen-set: the matches from left to right, each     *)
(* stripped, without repeats.                                              *)
RECURSIVE FindSpans(_, _, _)
FindSpans(out, t, i) ==
    IF i > Len(t) THEN out
    ELSE LET e == MatchAt(t, i)
         IN IF e = 0 THEN FindSpans(out, t, i + 1)
            ELSE LET sp == Strip(SubSeq(t, i, e - 1))
                 IN FindSpans(IF InSeq(out, sp) THEN out ELSE Append(out, sp), t, e)

ExtractNumberSpans(text) == FindSpans(<<>>, text, 1)

ExtractNumberSpansLoose(text) == FindSpans(<<>>, text, 1)

(* normalize_number_string: blanks removed, the full-width yuan sign       *)
(* replaced by the half-width one.                                         *)
RECURSIVE NormalizeNumberString(_)
NormalizeNumberString(t) ==
    IF t = <<>> THEN <<>>
    ELSE IF Head(t) \in Blanks THEN NormalizeNumberString(Tail(t))
    ELSE <<IF Head(t) = "Y" THEN "y" ELSE Head(t)>> \o NormalizeNumberString(Tail(t))

NormalizedSet(nums) == {NormalizeNumberString(nums[k]) : k \in DOMAIN nums}

(* The numbers of a value that are not allowed, in order of extraction.    *)
BadNumbers(value, allowed) ==
    LET Ok(n) == NormalizeNumberString(n) \in allowed
        Bad(n) == ~Ok(n)
    IN SelectSeq(ExtractNumberSpansLoose(value), Bad)

(* Variant: a row with a number that is not allowed is kept with its value *)
(* blanked, instead of being dropped.                                      *)
RECURSIVE StripRowsBlanking(_, _, _)
StripRowsBlanking(acc, rows, allowed) ==
    IF rows = <<>> THEN acc
    ELSE LET row == Head(rows)
         IN IF row.kind # "dict" THEN StripRowsBlanking(acc, Tail(rows), allowed)
            ELSE IF ~row.isStr
            THEN StripRowsBlanking([acc EXCEPT !.kept = Append(@, row)], Tail(rows), allowed)
            ELSE LET bad == BadNumbers(row.value, allowed)
                 IN IF bad # <<>>
                    THEN StripRowsBlanking(
                            [kept |-> Append(acc.kept, [row EXCEPT !.value = <<>>]),
                             dropped |-> Append(acc.dropped,
                                                [indicator |-> row.indicator, bad |-> bad])],
                            Tail(rows), allowed)
                    ELSE StripRowsBlanking([acc EXCEPT !.kept = Append(@, row)],
                                           Tail(rows), allowed)

(* The loop of strip_unverified_numbers_from_by_the_numbers.               *)
RECURSIVE StripRows(_, _, _)
StripRows(acc, rows, allowed) ==
    IF rows = <<>> THEN acc
    ELSE LET row == Head(rows)
         IN IF row.kind # "dict" THEN StripRows(acc, Tail(rows), allowed)
            ELSE IF ~row.isStr
            THEN StripRows([acc EXCEPT !.kept = Append(@, row)], Tail(rows), allowed)
            ELSE LET bad == BadNumbers(row.value, allowed)
                 IN IF bad # <<>>
                    THEN StripRows(
                            [acc EXCEPT !.dropped =
                                Append(@, [indicator |-> row.indicator, bad |-> bad])],
                            Tail(rows), allowed)
                    ELSE StripRows([acc EXCEPT !.kept = Append(@, row)],
                                   Tail(rows), allowed)

StripUnverifiedNumbersFromByTheNumbers(rows, allowedNumbers) ==
    IF rows = <<>> THEN [kept |-> rows, dropped |-> <<>>]
    ELSE StripRows([kept |-> <<>>, dropped |-> <<>>], rows,
                   NormalizedSet(allowedNumbers))

Texts == SeqsUpTo(NumChars, MaxTextLen)

(* Values longer than MaxTextLen that hold two numbers, or a number        *)
(* between other text.                                                     *)
LongTexts == {<<"5", " ", "8">>, <<"5", "x", "8">>, <<"x", "5", "w">>,
              <<"5", "w", "x">>}

(* A row: a dict whose value is a text, a dict whose value is not a        *)
(* string, or an entry that is not a dict.                                 *)
BtnRowValues ==
    {[kind |-> "dict", isStr |-> TRUE, value |-> v] : v \in Texts \cup LongTexts}
    \cup {[kind |-> "dict", isStr |-> FALSE, value |-> <<>>],
          [kind |-> "other", isStr |-> FALSE, value |-> <<>>]}

BtnRows(vals) ==
    [i \in DOMAIN vals |->
        [kind |-> vals[i].kind, isStr |-> vals[i].isStr, value |-> vals[i].value,
         indicator |-> i]]

InitStrip ==
    /\ fnStage = "strip_in"
    /\ fnIn \in {[material |-> m, rows |-> BtnRows(vals)] :
                    m \in Texts, vals \in SeqsUpTo(BtnRowValues, MaxBtnRows)}
    /\ fnOut = <<>>
    /\ InitNormIdle /\ InitGenIdle /\ InitStyleIdle /\ InitCacheIdle /\ InitLockIdle /\ InitQueueIdle

(* generate, step 5: allowed_numbers = extract_number_spans(material)      *)
ExtractAllowed ==
    /\ fnStage = "strip_in"
    /\ fnOut' = [allowed |-> ExtractNumberSpans(fnIn.material)]
    /\ fnStage' = "strip_allowed"
    /\ UNCHANGED <<fnIn, normVars, genVars, styleVars, cacheVars, lockVars,
                   queueVars>>

StripUnverified ==
    /\ fnStage = "strip_allowed"
    /\ LET r == StripUnverifiedNumbersFromByTheNumbers(fnIn.rows, fnOut.allowed)
       IN fnOut' = [allowed |-> fnOut.allowed, kept |-> r.kept, dropped |-> r.dropped]
    /\ fnStage' = "strip_done"
    /\ UNCHANGED <<fnIn, normVars, genVars, styleVars, cacheVars, lockVars,
                   queueVars>>

NextStrip == ExtractAllowed \/ StripUnverified

SpecStrip == InitStrip /\ [][NextStrip]_vars

(***************************************************************************)
(* SpecSum: _summarize_per_article over a finance pool of up to MaxSumArts *)
(* articles.  A text is its length after strip(); a slice [:n] is the      *)
(* lesser of the length and n.                                             *)
(*   fnIn   the articles: the lengths of the title and of the first key    *)
(*          snippet of the body (0 when the body yields none)              *)
(*   fnOut  the entries emitted so far                                     *)
(***************************************************************************)
MaxSumArts == 2

(* summary[:120] and title[:120]; title[:80] in the last fallback; a key   *)
(* snippet has 12 to 141 characters.                                       *)
SummaryCut == 120
TitleCut == 80
SnippetMin == 12
SnippetMax == 141

Slice(len, n) == IF len < n THEN len ELSE n

TitleLens == {0, 1, TitleCut, TitleCut + 1, SummaryCut + 1}
SnippetLens == {0, SnippetMin, SummaryCut, SnippetMax}
LlmSummaryLens == {0, 1, SummaryCut, SummaryCut + 1}

(* The summary the call yields: nothing when the call raises, times out,   *)
(* returns no content or no JSON object; else the stripped "summary".      *)
LlmSummary(outcome, llmLen) == IF outcome = "ok" THEN llmLen ELSE 0

(* Lines 613-664 for one source.                                           *)
SummarizeEntry(sid, art, outcome, llmLen) ==
    LET s1 == LlmSummary(outcome, llmLen)
        s2 == IF s1 = 0 THEN art.snippet ELSE s1
        s3 == IF s2 = 0 THEN Slice(art.title, TitleCut) ELSE s2
    IN [source_id |-> sid,
        title |-> Slice(art.title, SummaryCut),
        summary |-> Slice(s3, SummaryCut),
        origin |-> IF s1 # 0 THEN "llm" ELSE IF s2 # 0 THEN "snippet" ELSE "title"]

InitSum ==
    /\ fnStage = "sum"
    /\ fnIn \in SeqsUpTo([title : TitleLens, snippet : SnippetLens], MaxSumArts)
    /\ fnOut = <<>>
    /\ InitNormIdle /\ InitGenIdle /\ InitStyleIdle /\ InitCacheIdle /\ InitLockIdle /\ InitQueueIdle

(* One pass of the loop over sources.                                      *)
SummarizeNext(outcome, llmLen) ==
    /\ fnStage = "sum"
    /\ Len(fnOut) < Len(fnIn)
    /\ fnOut' = Append(fnOut, SummarizeEntry(Len(fnOut) + 1, fnIn[Len(fnOut) + 1],
                                             outcome, llmLen))
    /\ UNCHANGED <<fnIn, fnStage, normVars, genVars, styleVars, cacheVars, lockVars,
                   queueVars>>

SummarizeReturn ==
    /\ fnStage = "sum"
    /\ Len(fnOut) = Len(fnIn)
    /\ fnStage' = "sum_done"
    /\ UNCHANGED <<fnIn, fnOut, normVars, genVars, styleVars, cacheVars, lockVars,
                   queueVars>>

NextSum ==
    \/ \E o \in Outcomes, n \in LlmSummaryLens : SummarizeNext(o, n)
    \/ SummarizeReturn

SpecSum == InitSum /\ [][NextSum]_vars

(***************************************************************************)
(* SpecPre: _prefilter_articles.  An article is the set of finance         *)
(* keywords its title and content contain; articles are named by their     *)
(* position in the input.                                                  *)
(*   fnIn   the articles and min_finance_kw_hits                           *)
(*   fnOut  the positions sorted by hits, then the positions returned      *)
(***************************************************************************)
MaxArticles == 22

(* "ensure at least 8 articles", and hits[: min(len(hits), 20)].           *)
MinBreadth == 8
FallbackTop == 20

FinanceKeywords == {"k1", "k2", "k3"}

KeywordsOfHits == [h \in 0..Cardinality(FinanceKeywords) |->
                     CHOOSE S \in SUBSET FinanceKeywords : Cardinality(S) = h]

(* finance_keyword_hits: the number of keywords found in the text.         *)
FinanceKeywordHits(blob) == Cardinality({k \in FinanceKeywords : k \in blob})

(* The indexes of s whose hit count is h, in the order of s.               *)
RECURSIVE Bucket(_, _, _)
Bucket(arts, i, h) ==
    IF i > Len(arts) THEN <<>>
    ELSE (IF FinanceKeywordHits(arts[i]) = h THEN <<i>> ELSE <<>>)
         \o Bucket(arts, i + 1, h)

(* hits.sort(key=hits, reverse=True): a stable sort, so articles with the  *)
(* same count keep their input order.                                      *)
RECURSIVE SortedFrom(_, _)
SortedFrom(arts, h) ==
    IF h < 0 THEN <<>> ELSE Bucket(arts, 1, h) \o SortedFrom(arts, h - 1)

SortByHits(arts) == SortedFrom(arts, Cardinality(FinanceKeywords))

(* Variant: the articles that meet the threshold are returned however few. *)
PrefilterNoFallback(arts, sorted, minHits) ==
    LET Meets(i) == FinanceKeywordHits(arts[i]) >= minHits
    IN SelectSeq(sorted, Meets)

Prefilter(arts, sorted, minHits) ==
    LET Meets(i) == FinanceKeywordHits(arts[i]) >= minHits
        kept == SelectSeq(sorted, Meets)
    IN IF Len(kept) >= MinBreadth THEN kept
       ELSE Take(sorted, Slice(Len(sorted), FallbackTop))

(* The inputs: n articles of which q have two or three keywords and the    *)
(* others none or one, the q coming first, last or spread over the input.  *)
Placements == {"first", "last", "spread"}

ArticlesOf(n, q, pl) ==
    [i \in 1..n |->
        LET strong == CASE pl = "first" -> i <= q
                        [] pl = "last" -> i > n - q
                        [] OTHER -> (i % 2 = 0 /\ i <= 2 * q) \/ i > 2 * (n - q)
        IN KeywordsOfHits[(IF strong THEN 2 ELSE 0) + (i % 2)]]

InitPre ==
    /\ fnStage = "pre_in"
    /\ fnIn \in {[articles |-> ArticlesOf(n, q, pl), minHits |-> t] :
                    n \in 0..MaxArticles, q \in 0..MaxArticles, pl \in Placements,
                    t \in 1..Cardinality(FinanceKeywords)}
    /\ fnOut = <<>>
    /\ InitNormIdle /\ InitGenIdle /\ InitStyleIdle /\ InitCacheIdle /\ InitLockIdle /\ InitQueueIdle

(* Lines 846-851.                                                          *)
ScoreAndSort ==
    /\ fnStage = "pre_in"
    /\ fnOut' = [sorted |-> SortByHits(fnIn.articles)]
    /\ fnStage' = "pre_sorted"
    /\ UNCHANGED <<fnIn, normVars, genVars, styleVars, cacheVars, lockVars,
                   queueVars>>

(* Lines 852-857.                                                          *)
SelectArticles ==
    /\ fnStage = "pre_sorted"
    /\ fnOut' = [sorted |-> fnOut.sorted,
                 result |-> Prefilter(fnIn.articles, fnOut.sorted, fnIn.minHits)]
    /\ fnStage' = "pre_done"
    /\ UNCHANGED <<fnIn, normVars, genVars, styleVars, cacheVars, lockVars,
                   queueVars>>

NextPre == ScoreAndSort \/ SelectArticles

SpecPre == InitPre /\ [][NextPre]_vars

(***************************************************************************)
(* SpecCollect: trigger_article_collection and its background task, in one *)
(* API process.                                                            *)
(*   lock   _ARTICLE_COLLECT_LOCK                                          *)
(*   task   per trigger request: where the request or its background task  *)
(*          is (st), the accounts collected so far (idx), how the body     *)
(*          ended (how), and whether the trigger found the lock held (saw) *)
(***************************************************************************)
MaxTriggers == 3
MaxAccounts == 2

Triggers == 1..MaxTriggers

NoTask == [st |-> "none", idx |-> 0, how |-> "", saw |-> FALSE]

Executing == {t \in DOMAIN task : task[t].st \in {"running", "releasing"}}

InitCollect ==
    /\ lock = FALSE
    /\ task = [t \in Triggers |-> NoTask]
    /\ InitNormIdle /\ InitGenIdle /\ InitStyleIdle /\ InitCacheIdle /\ InitPureIdle
    /\ InitQueueIdle

(* Lines 727-748 and 848-854: the request returns at once when the lock is *)
(* held, else it stores a job and queues _run_collection.                  *)
TriggerArticleCollection(t) ==
    /\ task[t].st = "none"
    /\ \A u \in Triggers : u < t => task[u].st # "none"
    /\ task' = [task EXCEPT ![t] = IF lock
                                   THEN [@ EXCEPT !.st = "refused", !.saw = TRUE]
                                   ELSE [@ EXCEPT !.st = "queued"]]
    /\ UNCHANGED <<lock, normVars, genVars, styleVars, cacheVars, pureVars, queueVars>>

(* Variant: the background task does not take the lock before it runs.     *)
RunCollectionStartNoAcquire(t) ==
    /\ task[t].st = "queued"
    /\ lock' = TRUE
    /\ task' = [task EXCEPT ![t].st = "running"]
    /\ UNCHANGED <<normVars, genVars, styleVars, cacheVars, pureVars, queueVars>>

(* Lines 757-759: acquire(blocking=False).                                 *)
RunCollectionStart(t) ==
    /\ task[t].st = "queued"
    /\ IF lock
       THEN /\ task' = [task EXCEPT ![t].st = "skipped"]
            /\ UNCHANGED lock
       ELSE /\ lock' = TRUE
            /\ task' = [task EXCEPT ![t].st = "running"]
    /\ UNCHANGED <<normVars, genVars, styleVars, cacheVars, pureVars, queueVars>>

(* Lines 784-818: one account is collected; a failure of collect_feed is   *)
(* caught and counted.                                                     *)
CollectAccount(t, ok) ==
    /\ task[t].st = "running"
    /\ task[t].idx < MaxAccounts
    /\ task' = [task EXCEPT ![t].idx = @ + 1,
                            ![t].how = IF ok THEN @ ELSE "errors"]
    /\ UNCHANGED <<lock, normVars, genVars, styleVars, cacheVars, pureVars, queueVars>>

(* The body ends: the job row is missing (return at line 766), every       *)
(* account is done (820-822), or an exception leaves the try block         *)
(* (829-841).                                                              *)
RunCollectionEnds(t, how) ==
    /\ task[t].st = "running"
    /\ how = "missing" => task[t].idx = 0
    /\ how = "finished" => task[t].idx = MaxAccounts
    /\ task' = [task EXCEPT ![t].st = "releasing",
                            ![t].how = IF how = "finished" /\ @ = "errors" THEN @ ELSE how]
    /\ UNCHANGED <<lock, normVars, genVars, styleVars, cacheVars, pureVars, queueVars>>

(* Lines 842-846: finally, release.                                        *)
ReleaseLock(t) ==
    /\ task[t].st = "releasing"
    /\ lock' = FALSE
    /\ task' = [task EXCEPT ![t].st = "ended"]
    /\ UNCHANGED <<normVars, genVars, styleVars, cacheVars, pureVars, queueVars>>

NextCollect ==
    \/ \E t \in Triggers : TriggerArticleCollection(t)
    \/ \E t \in Triggers : RunCollectionStart(t)
    \/ \E t \in Triggers, ok \in BOOLEAN : CollectAccount(t, ok)
    \/ \E t \in Triggers, how \in {"missing", "finished", "exception"} :
          RunCollectionEnds(t, how)
    \/ \E t \in Triggers : ReleaseLock(t)

SpecCollect == InitCollect /\ [][NextCollect]_vars

(***************************************************************************)
(* The sources pool: _build_material numbers the finance candidates, and   *)
(* _build_sources_index_with_finance_first appends the remaining articles  *)
(* by URL (generator.py 859-917, 283-353).  An article is its stored URL   *)
(* and the length of its material block.                                   *)
(***************************************************************************)
MaxFinArts == 2
MaxAllArts == 3
MaxBudget == 3

UrlVals == {"", "u1", "u2"}

BlockLens == {1, 2}

(* str.strip() at line 330 on the URL values of the model and their padded *)
(* forms.                                                                  *)
StripUrl(u) ==
    CASE u \in {"", " "} -> ""
      [] u \in {"u1", " u1", "u1 "} -> "u1"
      [] u \in {"u2", " u2", "u2 "} -> "u2"
      [] OTHER -> u

(* Lines 868-915: ids come from enumerate(start=1); the loop breaks at the *)
(* first block that does not fit in the budget.                            *)
RECURSIVE BuildMaterialFrom(_, _, _, _)
BuildMaterialFrom(arts, idx, total, maxTotal) ==
    IF idx > Len(arts) THEN <<>>
    ELSE IF total + arts[idx].len > maxTotal THEN <<>>
    ELSE <<[id |-> idx, url |-> arts[idx].url]>>
         \o BuildMaterialFrom(arts, idx + 1, total + arts[idx].len, maxTotal)

BuildMaterial(arts, maxTotal) == BuildMaterialFrom(arts, 1, 0, maxTotal)

(* Lines 302-325: the finance entries keep their ids; existing_urls holds  *)
(* their non-empty URLs and max_id their largest id.                       *)
RECURSIVE FinanceKept(_)
FinanceKept(fs) ==
    IF fs = <<>> THEN <<>>
    ELSE IF Head(fs).id <= 0 THEN FinanceKept(Tail(fs))
    ELSE <<Head(fs)>> \o FinanceKept(Tail(fs))

MaxId(entries) ==
    IF entries = <<>> THEN 0
    ELSE CHOOSE m \in {entries[i].id : i \in 1..Len(entries)} :
            \A i \in 1..Len(entries) : entries[i].id <= m

ExistingUrls(entries) == {entries[i].url : i \in 1..Len(entries)} \ {""}

(* The loop of lines 329-351 without the test of line 331.                 *)
RECURSIVE AppendRemainingNoUrlCheck(_, _, _)
AppendRemainingNoUrlCheck(all, existing, nextId) ==
    IF all = <<>> THEN <<>>
    ELSE <<[id |-> nextId, url |-> StripUrl(Head(all))]>>
         \o AppendRemainingNoUrlCheck(Tail(all), existing, nextId + 1)

(* Lines 328-351.                                                          *)
RECURSIVE AppendRemaining(_, _, _)
AppendRemaining(all, existing, nextId) ==
    IF all = <<>> THEN <<>>
    ELSE LET url == StripUrl(Head(all)) IN
         IF url = "" \/ url \in existing
         THEN AppendRemaining(Tail(all), existing, nextId)
         ELSE <<[id |-> nextId, url |-> url]>>
              \o AppendRemaining(Tail(all), existing \cup {url}, nextId + 1)

BuildSourcesIndexWithFinanceFirst(financeSources, allArticles) ==
    LET kept == FinanceKept(financeSources) IN
    kept \o AppendRemaining(allArticles, ExistingUrls(kept), MaxId(kept) + 1)

FinArticles == UNION {[1..n -> [url : UrlVals, len : BlockLens]] : n \in 0..MaxFinArts}

AllUrls == UNION {[1..n -> UrlVals] : n \in 0..MaxAllArts}

InitPool ==
    /\ fnStage = "pool_in"
    /\ fnIn \in [fin : FinArticles, all : AllUrls, maxTotal : 2..MaxBudget]
    /\ fnOut = <<>>
    /\ InitNormIdle /\ InitGenIdle /\ InitStyleIdle /\ InitCacheIdle /\ InitLockIdle /\ InitQueueIdle

(* generator.py line 106.                                                  *)
BuildFinanceMaterial ==
    /\ fnStage = "pool_in"
    /\ fnOut' = [fin |-> BuildMaterial(fnIn.fin, fnIn.maxTotal)]
    /\ fnStage' = "pool_fin"
    /\ UNCHANGED <<fnIn, normVars, genVars, styleVars, cacheVars, lockVars,
                   queueVars>>

(* generator.py lines 181-185.                                             *)
BuildCombinedPool ==
    /\ fnStage = "pool_fin"
    /\ fnOut' = [fin |-> fnOut.fin,
                 pool |-> BuildSourcesIndexWithFinanceFirst(fnOut.fin, fnIn.all)]
    /\ fnStage' = "pool_done"
    /\ UNCHANGED <<fnIn, normVars, genVars, styleVars, cacheVars, lockVars,
                   queueVars>>

NextPool == BuildFinanceMaterial \/ BuildCombinedPool

SpecPool == InitPool /\ [][NextPool]_vars

(***************************************************************************)
(* SpecKw: the hotspot rows and the keywords of one briefing               *)
(* (generator.py 483-527, 257-265, 1088-1134).  Source i of the combined   *)
(* pool stands for article i; the title of an article is its number, 0     *)
(* when the title is empty.                                                *)
(*   fnIn   the pool size, the account name of every source, the draft's   *)
(*          lede citations, the articles without a title, the events in    *)
(*          the clustering answer and the hotness that answer gives them   *)
(*   fnOut  the events cluster_recent_hotspots_llm returns, then the rows  *)
(*          of _extract_recent_hotspots, then the normalized document,     *)
(*          then its keywords                                              *)
(***************************************************************************)
MaxKwPool == 4
MaxKwEvents == 4

HotnessBase == 20
HotnessPerDoc == 18
HotnessPerAccount == 10
HotnessCap == 100
SnippetSources == 2
SnippetCap == 4

AccountMaps(m) ==
    {[i \in 1..m |-> "A"],
     [i \in 1..m |-> ""],
     [i \in 1..m |-> IF i % 2 = 1 THEN "A" ELSE "B"],
     [i \in 1..m |-> IF i = 1 THEN "" ELSE IF i = 2 THEN "A" ELSE IF i = 3 THEN "B" ELSE "C"]}

(* The source_ids an event can carry once validated: distinct ids of the   *)
(* clustering input, at least two (hotspots.py 340-352).                   *)
KwIdChoices(m) ==
    {s \in {<<1, 2>>, <<3, 2>>, <<2, 3, 4>>, <<m, 1>>, <<3, 1, 2>>} :
        \A i \in DOMAIN s : s[i] <= m}

LlmHotness == {0, 999}

KwLedes(m) == {<<>>, <<m>>}

(* hotspots.py 359: the event returned has no hotness key.                 *)
ClusterEvent(ev) == [event |-> ev.event, ids |-> ev.ids]

(* Variant: the score is not capped.                                       *)
HotnessUncapped(docs, accs) ==
    HotnessBase + docs * HotnessPerDoc + accs * HotnessPerAccount

(* Line 503.                                                               *)
Hotness(docs, accs) ==
    LET s == HotnessBase + docs * HotnessPerDoc + accs * HotnessPerAccount
    IN IF s < HotnessCap THEN s ELSE HotnessCap

(* Lines 488-524 for one event.                                            *)
HotspotRow(ev, account) ==
    LET docs == Cardinality(SeqSet(ev.ids))
        accs == Cardinality({account[ev.ids[i]] : i \in DOMAIN ev.ids} \ {""})
    IN [event |-> ev.event, hotness |-> Hotness(docs, accs),
        ids |-> Take(ev.ids, MaxSourceIds), docs |-> docs, accs |-> accs]

(* Line 526: list.sort by hotness, reverse=True; rows of equal hotness     *)
(* keep their order.                                                       *)
RECURSIVE SortByHotness(_)
SortByHotness(rows) ==
    IF rows = <<>> THEN <<>>
    ELSE LET top == CHOOSE h \in {rows[i].hotness : i \in DOMAIN rows} :
                        \A i \in DOMAIN rows : rows[i].hotness <= h
             At(r) == r.hotness = top
             Below(r) == r.hotness # top
         IN SelectSeq(rows, At) \o SortByHotness(SelectSeq(rows, Below))

(* Lines 506-527.                                                          *)
HotspotRows(events, account) ==
    Take(SortByHotness([i \in DOMAIN events |-> HotspotRow(events[i], account)]), TopK)

(* Lines 1102-1134; sourceArticlesAll maps an id of the combined pool to   *)
(* its article.                                                            *)
KeywordOf(row, sourceArticlesAll, untitled) ==
    LET first == Take(row.ids, SnippetSources)
        Titled(sid) == sid \in DOMAIN sourceArticlesAll
                       /\ sourceArticlesAll[sid] \notin untitled
        found == SelectSeq(first, Titled)
    IN [word |-> row.event, weight |-> row.hotness, citations |-> Len(row.ids),
        ids |-> Take(row.ids, MaxSourceIds),
        snippets |-> Take([i \in DOMAIN found |-> sourceArticlesAll[found[i]]], SnippetCap)]

TodayKeywords(rows, sourceArticlesAll, untitled) ==
    [i \in 1..(IF Len(rows) < KeywordTop THEN Len(rows) ELSE KeywordTop) |->
        KeywordOf(rows[i], sourceArticlesAll, untitled)]

KwEvents(m) ==
    UNION {[1..n -> KwIdChoices(m)] : n \in 0..MaxKwEvents}

InitKw ==
    /\ fnStage = "kw_in"
    /\ \E m \in MinClusterItems..MaxKwPool :
          fnIn \in [m : {m}, account : AccountMaps(m), lede : KwLedes(m),
                    untitled : {{}, {2}}, evs : KwEvents(m), llmHot : LlmHotness]
    /\ fnOut = <<>>
    /\ InitNormIdle /\ InitGenIdle /\ InitStyleIdle /\ InitCacheIdle /\ InitLockIdle /\ InitQueueIdle

(* generator.py 483: the clustering answer, validated.                     *)
ClusterKw ==
    /\ fnStage = "kw_in"
    /\ fnOut' = [events |-> [i \in DOMAIN fnIn.evs |->
                    ClusterEvent([event |-> i, ids |-> fnIn.evs[i],
                                  hotness |-> fnIn.llmHot])]]
    /\ fnStage' = "kw_events"
    /\ UNCHANGED <<fnIn, normVars, genVars, styleVars, cacheVars, lockVars,
                   queueVars>>

(* generator.py 487-527.                                                   *)
ScoreHotspots ==
    /\ fnStage = "kw_events"
    /\ fnOut' = [rows |-> HotspotRows(fnOut.events, fnIn.account)]
    /\ fnStage' = "kw_rows"
    /\ UNCHANGED <<fnIn, normVars, genVars, styleVars, cacheVars, lockVars,
                   queueVars>>

(* generator.py 257-258: step 4 renumbers the citations of the rows.       *)
NormalizeKw ==
    /\ fnStage = "kw_rows"
    /\ LET pre == [EmptyDoc EXCEPT !.lede = fnIn.lede,
                                   !.hotspots = [i \in DOMAIN fnOut.rows |-> fnOut.rows[i].ids]]
           doc == Normalize(pre, PoolOf(fnIn.m))
       IN fnOut' = [rows |-> fnOut.rows,
                    sources |-> doc.sources,
                    hotspots |-> [i \in DOMAIN fnOut.rows |->
                                    [fnOut.rows[i] EXCEPT !.ids = doc.hotspots[i]]]]
    /\ fnStage' = "kw_norm"
    /\ UNCHANGED <<fnIn, normVars, genVars, styleVars, cacheVars, lockVars,
                   queueVars>>

(* generator.py 260-265: source_articles_all is the map of the combined    *)
(* pool built before step 4.                                               *)
ExtractKeywords ==
    /\ fnStage = "kw_norm"
    /\ fnOut' = [rows |-> fnOut.rows, sources |-> fnOut.sources,
                 hotspots |-> fnOut.hotspots,
                 keywords |-> TodayKeywords(fnOut.hotspots, [i \in 1..fnIn.m |-> i],
                                            fnIn.untitled)]
    /\ fnStage' = "kw_done"
    /\ UNCHANGED <<fnIn, normVars, genVars, styleVars, cacheVars, lockVars,
                   queueVars>>

NextKw == ClusterKw \/ ScoreHotspots \/ NormalizeKw \/ ExtractKeywords

SpecKw == InitKw /\ [][NextKw]_vars

(***************************************************************************)
(* SpecMask: sanitize_sensitive (guardrails.py 27-109).  A text is a       *)
(* sequence of characters; the masking token is the two characters "m",    *)
(* "k"; a by_the_numbers row is its indicator text, or NotDict; a hotword  *)
(* is a text, or NotStr.                                                   *)
(*   fnIn   the configured phrases, in their order, and the document       *)
(*   fnOut  the document and the hit list returned                         *)
(***************************************************************************)
MaxMaskRows == 1

MaskToken == <<"m", "k">>

NotDict == <<"{">>
NotStr == <<"[">>

PhraseVals == {<<"a", "b">>, <<"b", "a">>, <<"a", "b", "a">>, <<"k">>}

PhraseLists ==
    {<<p>> : p \in PhraseVals}
        \cup {l \in PhraseVals \X PhraseVals : l[1] # l[2]}

MaskTexts ==
    {<<>>, <<"a">>, <<"a", "b">>, <<"a", "b", "a">>, <<"b", "a", "b">>,
     <<"b", "b", "a", "b">>}

OccursAt(s, h, i) ==
    /\ i + Len(h) - 1 <= Len(s)
    /\ SubSeq(s, i, i + Len(h) - 1) = h

(* p in text                                                               *)
Contains(s, h) == \E i \in 1..Len(s) : OccursAt(s, h, i)

(* str.replace: the occurrences are taken from the left, without overlap.  *)
RECURSIVE ReplaceFrom(_, _, _, _)
ReplaceFrom(s, h, tok, i) ==
    IF i > Len(s) THEN <<>>
    ELSE IF OccursAt(s, h, i) THEN tok \o ReplaceFrom(s, h, tok, i + Len(h))
    ELSE <<s[i]>> \o ReplaceFrom(s, h, tok, i + 1)

Replace(s, h, tok) == ReplaceFrom(s, h, tok, 1)

(* Lines 36-66: the non-empty strings of the visible fields, joined by a   *)
(* newline.                                                                *)
RECURSIVE JoinLines(_)
JoinLines(parts) ==
    IF parts = <<>> THEN <<>>
    ELSE IF Len(parts) = 1 THEN Head(parts)
    ELSE Head(parts) \o <<"\n">> \o JoinLines(Tail(parts))

CollectAllTextFields(doc) ==
    LET IsText(v) == v # <<>> /\ v # NotDict /\ v # NotStr
    IN JoinLines(SelectSeq(<<doc.title, doc.lede, doc.why>> \o doc.btn \o doc.hotwords,
                           IsText))

(* Lines 27-34.                                                            *)
FindSensitiveHits(text, phrases) ==
    IF text = <<>> THEN <<>>
    ELSE LET Hit(p) == p # <<>> /\ Contains(text, p)
         IN SelectSeq(phrases, Hit)

(* Variant: only the first hit is replaced.                                *)
MaskFirstHit(s, hits) ==
    IF hits = <<>> THEN s ELSE Replace(s, Head(hits), MaskToken)

(* _mask, lines 76-80: the hits are replaced one after another.            *)
RECURSIVE Mask(_, _)
Mask(s, hits) ==
    IF hits = <<>> THEN s
    ELSE Mask(Replace(s, Head(hits), MaskToken), Tail(hits))

(* Lines 69-109.                                                           *)
SanitizeSensitive(doc, phrases) ==
    LET hits == FindSensitiveHits(CollectAllTextFields(doc), phrases)
        IsDict(r) == r # NotDict
        rows == SelectSeq(doc.btn, IsDict)
    IN IF hits = <<>> THEN [doc |-> doc, hits |-> <<>>]
       ELSE [doc |-> [title |-> Mask(doc.title, hits),
                      lede |-> Mask(doc.lede, hits),
                      why |-> Mask(doc.why, hits),
                      btn |-> [i \in DOMAIN rows |-> Mask(rows[i], hits)],
                      hotwords |-> [i \in DOMAIN doc.hotwords |->
                                      IF doc.hotwords[i] = NotStr THEN NotStr
                                      ELSE Mask(doc.hotwords[i], hits)]],
             hits |-> hits]

MaskRows == UNION {[1..n -> MaskTexts \cup {NotDict}] : n \in 0..MaxMaskRows}

MaskHotwords == {<<>>} \cup {<<w>> : w \in MaskTexts \cup {NotStr}}

InitMask ==
    /\ fnStage = "mask_in"
    /\ fnIn \in [phrases : PhraseLists,
                 doc : [title : MaskTexts, lede : {<<>>, <<"b", "a">>}, why : MaskTexts,
                        btn : MaskRows, hotwords : MaskHotwords]]
    /\ fnOut = <<>>
    /\ InitNormIdle /\ InitGenIdle /\ InitStyleIdle /\ InitCacheIdle /\ InitLockIdle /\ InitQueueIdle

(* generator.py 267-268.                                                   *)
Sanitize ==
    /\ fnStage = "mask_in"
    /\ fnOut' = SanitizeSensitive(fnIn.doc, fnIn.phrases)
    /\ fnStage' = "mask_done"
    /\ UNCHANGED <<fnIn, normVars, genVars, styleVars, cacheVars, lockVars,
                   queueVars>>

NextMask == Sanitize

SpecMask == InitMask /\ [][NextMask]_vars

(***************************************************************************)
(* SpecRow: the row get_or_compute_one_liners builds and persists for one  *)
(* article of a batch (hotspots.py 81-103, 190-244).  A text is a sequence *)
(* of characters: "x" a letter, " " a blank, "." a punctuation mark of the *)
(* class stripped at line 85.                                              *)
(*   fnIn   the item of the model's answer for the article (its one_liner, *)
(*          tags and keep), the article's title, the threshold variable    *)
(*          of the environment, and whether the insert commits             *)
(*   fnOut  the row built, then what is persisted                          *)
(***************************************************************************)
OneLinerMax == 20
TagMax == 3
ThresholdDefault == 2
ThresholdMin == 1
ThresholdMax == 6

Letters(n) == [i \in 1..n |-> "x"]

OneLinerTexts ==
    {<<>>, <<" ">>, <<".">>,
     Letters(1), <<" ">> \o Letters(3) \o <<".", ".", " ">>,
     Letters(20), Letters(21), Letters(19) \o <<" ">> \o Letters(3),
     Letters(19) \o <<".">> \o Letters(2), Letters(20) \o <<".">>,
     <<" ">> \o Letters(22) \o <<" ">>}

TitleTexts == {<<>>, Letters(5) \o <<".">>, Letters(19) \o <<" ">> \o Letters(4)}

NoValue == [k |-> "none", n |-> 0]

TagVals ==
    {NoValue, [k |-> "str", n |-> 3], [k |-> "junk", n |-> 0]}
        \cup {[k |-> "int", n |-> v] : v \in {-1, 0, 1, 2, 3, 5}}

ThresholdVals ==
    {NoValue, [k |-> "junk", n |-> 0]} \cup {[k |-> "str", n |-> v] : v \in {0, 1, 3, 6, 9}}

(* s.strip()                                                               *)
RECURSIVE LStrip(_)
LStrip(s) == IF s # <<>> /\ Head(s) = " " THEN LStrip(Tail(s)) ELSE s

RECURSIVE RStrip(_)
RStrip(s) ==
    IF s # <<>> /\ s[Len(s)] = " " THEN RStrip(SubSeq(s, 1, Len(s) - 1)) ELSE s

StripBlanks(s) == RStrip(LStrip(s))

(* re.sub(r"[...]+$", "", t)                                               *)
RECURSIVE StripTrailingPunct(_)
StripTrailingPunct(s) ==
    IF s # <<>> /\ s[Len(s)] = "." THEN StripTrailingPunct(SubSeq(s, 1, Len(s) - 1))
    ELSE s

(* Variant: no hard clip.                                                  *)
NormalizeOneLinerUnclipped(s) ==
    LET NotBlank(c) == c # " "
    IN StripBlanks(StripTrailingPunct(SelectSeq(StripBlanks(s), NotBlank)))

(* _normalize_one_liner, lines 81-89.                                      *)
NormalizeOneLiner(s) ==
    LET NotBlank(c) == c # " "
        t == StripBlanks(StripTrailingPunct(SelectSeq(StripBlanks(s), NotBlank)))
    IN IF Len(t) > OneLinerMax THEN StripBlanks(SubSeq(t, 1, OneLinerMax)) ELSE t

(* int(v or 0): whether it raises, and its value.                          *)
IntRaises(v) == v.k = "junk"

IntOr0(v) == IF v.k \in {"int", "str"} THEN v.n ELSE 0

Clamp(lo, hi, n) == IF n < lo THEN lo ELSE IF n > hi THEN hi ELSE n

(* _default_keep, lines 92-103.                                            *)
DefaultKeep(tags, env) ==
    LET th == Clamp(ThresholdMin, ThresholdMax,
                    IF env.k = "str" THEN env.n ELSE ThresholdDefault)
    IN tags.finance + tags.minsheng + tags.tech >= th

(* Lines 190-224: the row for one article; raised when a tag does not      *)
(* convert.                                                                *)
BuildRow(it, title, env) ==
    IF \E f \in {"finance", "minsheng", "tech"} : IntRaises(it.tags[f])
    THEN [raised |-> TRUE]
    ELSE LET one == NormalizeOneLiner(it.oneLiner)
             tags2 == [f \in {"finance", "minsheng", "tech"} |->
                          Clamp(0, TagMax, IntOr0(it.tags[f]))]
         IN [raised |-> FALSE,
             oneLiner |-> IF one = <<>>
                          THEN NormalizeOneLiner(Take(StripBlanks(title), OneLinerMax))
                          ELSE one,
             tags |-> tags2,
             keep |-> IF it.keep \in {"true", "false"} THEN it.keep = "true"
                      ELSE DefaultKeep(tags2, env)]

InitRow ==
    /\ fnStage = "row_in"
    /\ fnIn \in [it : [oneLiner : OneLinerTexts,
                       tags : [finance : TagVals, minsheng : {NoValue, [k |-> "int", n |-> 1],
                                                              [k |-> "int", n |-> 7]},
                               tech : {[k |-> "int", n |-> 0], [k |-> "int", n |-> 2]}],
                       keep : {"true", "false", "none"}],
                 title : TitleTexts, env : ThresholdVals, existing : BOOLEAN]
    /\ fnOut = <<>>
    /\ InitNormIdle /\ InitGenIdle /\ InitStyleIdle /\ InitCacheIdle /\ InitLockIdle /\ InitQueueIdle

(* Lines 190-224.                                                          *)
BuildOneLinerRow ==
    /\ fnStage = "row_in"
    /\ LET row == BuildRow(fnIn.it, fnIn.title, fnIn.env)
       IN /\ fnOut' = [row |-> row]
          /\ fnStage' = IF row.raised THEN "row_raised" ELSE "row_built"
    /\ UNCHANGED <<fnIn, normVars, genVars, styleVars, cacheVars, lockVars,
                   queueVars>>

(* Lines 225-244: the insert commits, or it raises and the row found for   *)
(* the key, if any, takes the values of the row built.                     *)
PersistRow(dbOk) ==
    /\ fnStage = "row_built"
    /\ fnOut' = [row |-> fnOut.row,
                 path |-> IF dbOk THEN "insert"
                          ELSE IF fnIn.existing THEN "update" ELSE "none",
                 stored |-> IF dbOk \/ fnIn.existing
                            THEN <<[oneLiner |-> fnOut.row.oneLiner, tags |-> fnOut.row.tags,
                                    keep |-> fnOut.row.keep]>>
                            ELSE <<>>]
    /\ fnStage' = "row_done"
    /\ UNCHANGED <<fnIn, normVars, genVars, styleVars, cacheVars, lockVars,
                   queueVars>>

NextRow == BuildOneLinerRow \/ \E dbOk \in BOOLEAN : PersistRow(dbOk)

SpecRow == InitRow /\ [][NextRow]_vars

(***************************************************************************)
(* SpecJobs: the report_jobs table under the regenerate-daily requests of  *)
(* the admin API and of the batch tool, the worker's runs, cancels and     *)
(* reclaims (admin.py 1153-1221, 1323-1368; tools/                         *)
(* queue_regenerate_all_daily.py 82-128; ai_generate.py 779-843), each     *)
(* handled as a whole.                                                     *)
(*   jobs    the table, in creation order: the id of a job is its place;   *)
(*           stale says that a RUNNING job started more than               *)
(*           REPORT_JOB_STALE_MINUTES ago                                  *)
(*   jobLog  the latest request: what it was, the table before it, and the *)
(*           job id it answered with (0 when none)                         *)
(***************************************************************************)
MaxJobs == 3

JobDates == {1, 2}

ActiveStatuses == {"PENDING", "RUNNING"}

NewJob(d) == [date |-> d, status |-> "PENDING", stale |-> FALSE]

ActiveFor(js, d) ==
    {j \in DOMAIN js : js[j].date = d /\ js[j].status \in ActiveStatuses}

(* order_by(created_at.desc()).first(): 0 when there is none.              *)
ExistingJob(js, d) ==
    IF ActiveFor(js, d) = {} THEN 0
    ELSE CHOOSE j \in ActiveFor(js, d) : \A k \in ActiveFor(js, d) : k <= j

MarkFailed(js, j) == [js EXCEPT ![j].status = "FAILED", ![j].stale = FALSE]

InitJobs ==
    /\ jobs = <<>>
    /\ jobLog = [op |-> "none"]
    /\ InitNormIdle /\ InitGenIdle /\ InitStyleIdle /\ InitCacheIdle /\ InitPureIdle
    /\ InitLockIdle

(* Variant: a forced request leaves the job it found as it is.             *)
EnqueueRegenerateDailyJobKeepOld(d, force, hasArticles) ==
    /\ LET ex == ExistingJob(jobs, d)
           isStaleRunning == ex # 0 /\ jobs[ex].status = "RUNNING" /\ jobs[ex].stale
       IN IF ~hasArticles
          THEN /\ UNCHANGED jobs
               /\ jobLog' = [op |-> "rejected", date |-> d, force |-> force,
                             before |-> jobs, ret |-> 0]
          ELSE IF ex # 0 /\ ~(force \/ isStaleRunning)
          THEN /\ UNCHANGED jobs
               /\ jobLog' = [op |-> "admin", date |-> d, force |-> force,
                             before |-> jobs, ret |-> ex]
          ELSE /\ Len(jobs) < MaxJobs
               /\ jobs' = Append(jobs, NewJob(d))
               /\ jobLog' = [op |-> "admin", date |-> d, force |-> force,
                             before |-> jobs, ret |-> Len(jobs) + 1]
    /\ UNCHANGED <<normVars, genVars, styleVars, cacheVars, pureVars, lockVars>>

(* admin.py 1153-1221.                                                     *)
EnqueueRegenerateDailyJob(d, force, hasArticles) ==
    /\ LET ex == ExistingJob(jobs, d)
           isStaleRunning == ex # 0 /\ jobs[ex].status = "RUNNING" /\ jobs[ex].stale
       IN IF ~hasArticles
          THEN /\ UNCHANGED jobs
               /\ jobLog' = [op |-> "rejected", date |-> d, force |-> force,
                             before |-> jobs, ret |-> 0]
          ELSE IF ex # 0 /\ ~(force \/ isStaleRunning)
          THEN /\ UNCHANGED jobs
               /\ jobLog' = [op |-> "admin", date |-> d, force |-> force,
                             before |-> jobs, ret |-> ex]
          ELSE /\ Len(jobs) < MaxJobs
               /\ jobs' = Append(IF ex # 0 THEN MarkFailed(jobs, ex) ELSE jobs, NewJob(d))
               /\ jobLog' = [op |-> "admin", date |-> d, force |-> force,
                             before |-> jobs, ret |-> Len(jobs) + 1]
    /\ UNCHANGED <<normVars, genVars, styleVars, cacheVars, pureVars, lockVars>>

(* queue_regenerate_all_daily.py 96-128.                                   *)
QueueOne(d, force, dryRun, hasArticles) ==
    /\ LET ex == ExistingJob(jobs, d)
       IN IF ~hasArticles \/ dryRun
          THEN /\ UNCHANGED jobs
               /\ jobLog' = [op |-> "rejected", date |-> d, force |-> force,
                             before |-> jobs, ret |-> 0]
          ELSE IF ex # 0 /\ ~force
          THEN /\ UNCHANGED jobs
               /\ jobLog' = [op |-> "cli", date |-> d, force |-> force,
                             before |-> jobs, ret |-> ex]
          ELSE /\ Len(jobs) < MaxJobs
               /\ jobs' = Append(IF ex # 0 THEN MarkFailed(jobs, ex) ELSE jobs, NewJob(d))
               /\ jobLog' = [op |-> "cli", date |-> d, force |-> force,
                             before |-> jobs, ret |-> Len(jobs) + 1]
    /\ UNCHANGED <<normVars, genVars, styleVars, cacheVars, pureVars, lockVars>>

(* ai_generate.py 779-843 with limit = 1: the stale RUNNING jobs are       *)
(* failed, then the oldest PENDING job is run; "crash" is a run that ends  *)
(* with the process, the job left RUNNING.                                 *)
ProcessPendingJobs(outcome) ==
    /\ LET reclaimed == [j \in DOMAIN jobs |->
                            IF jobs[j].status = "RUNNING" /\ jobs[j].stale
                            THEN [jobs[j] EXCEPT !.status = "FAILED", !.stale = FALSE]
                            ELSE jobs[j]]
           pending == {j \in DOMAIN reclaimed : reclaimed[j].status = "PENDING"}
       IN IF pending = {}
          THEN jobs' = reclaimed
          ELSE LET j == CHOOSE x \in pending : \A y \in pending : x <= y
               IN jobs' = [reclaimed EXCEPT ![j].status =
                              CASE outcome = "success" -> "SUCCESS"
                                [] outcome = "failed" -> "FAILED"
                                [] OTHER -> "RUNNING"]
    /\ jobLog' = [op |-> "worker", date |-> 0, force |-> FALSE, before |-> jobs, ret |-> 0]
    /\ UNCHANGED <<normVars, genVars, styleVars, cacheVars, pureVars, lockVars>>

(* Time passes: a RUNNING job is now older than the stale limit.           *)
BecomeStale(j) ==
    /\ j \in DOMAIN jobs
    /\ jobs[j].status = "RUNNING" /\ ~jobs[j].stale
    /\ jobs' = [jobs EXCEPT ![j].stale = TRUE]
    /\ jobLog' = [op |-> "clock", date |-> 0, force |-> FALSE, before |-> jobs, ret |-> 0]
    /\ UNCHANGED <<normVars, genVars, styleVars, cacheVars, pureVars, lockVars>>

(* admin.py 1323-1344.                                                     *)
CancelReportJob(j) ==
    /\ j \in DOMAIN jobs
    /\ jobs[j].status = "PENDING"
    /\ jobs' = MarkFailed(jobs, j)
    /\ jobLog' = [op |-> "cancel", date |-> 0, force |-> FALSE, before |-> jobs, ret |-> j]
    /\ UNCHANGED <<normVars, genVars, styleVars, cacheVars, pureVars, lockVars>>

(* admin.py 1347-1368.                                                     *)
ReclaimStaleRunningJob(j) ==
    /\ j \in DOMAIN jobs
    /\ jobs[j].status = "RUNNING"
    /\ jobs' = MarkFailed(jobs, j)
    /\ jobLog' = [op |-> "reclaim", date |-> 0, force |-> FALSE, before |-> jobs, ret |-> j]
    /\ UNCHANGED <<normVars, genVars, styleVars, cacheVars, pureVars, lockVars>>

NextJobs ==
    \/ \E d \in JobDates, force \in BOOLEAN, hasArticles \in BOOLEAN :
          EnqueueRegenerateDailyJob(d, force, hasArticles)
    \/ \E d \in JobDates, force \in BOOLEAN, dryRun \in BOOLEAN, hasArticles \in BOOLEAN :
          QueueOne(d, force, dryRun, hasArticles)
    \/ \E outcome \in {"success", "failed", "crash"} : ProcessPendingJobs(outcome)
    \/ \E j \in 1..MaxJobs : BecomeStale(j)
    \/ \E j \in 1..MaxJobs : CancelReportJob(j)
    \/ \E j \in 1..MaxJobs : ReclaimStaleRunningJob(j)

SpecJobs == InitJobs /\ [][NextJobs]_vars

(***************************************************************************)
(* The normalizer, generate and the worker together.                       *)
(***************************************************************************)
Init == InitNorm \/ InitGen \/ InitStyle

Next == NextNorm \/ NextGen \/ NextStyle

Spec == Init /\ [][Next]_vars


(***************************************************************************)
(* Claims about the citations of a returned briefing.                      *)
(***************************************************************************)
Contiguous(d) ==
    /\ \A k \in DOMAIN d.sources : d.sources[k].id = k
    /\ Len(d.sources) = Cardinality(SeqSet(AllCites(d)))

NormContiguous == nStage \in {"normalized", "renormalized"} => Contiguous(nOut)

NormIdempotent == nStage = "renormalized" => nOut2 = nOut

(* The citation arrays a briefing is read by: header.lede_citations,       *)
(* why_citations, big_picture_citations, recent_hotspots[].source_ids and  *)
(* keywords[].source_ids.                                                  *)
BriefingCites(d) ==
    d.lede \o d.why \o d.big \o FlattenRows(d.hotspots) \o FlattenRows(d.keywords)

Entries(d, c) == {k \in DOMAIN d.sources : d.sources[k].id = c}

OneEntry(d, c) == Cardinality(Entries(d, c)) = 1

ArtsCited(d, arr) == {d.sources[k].art : k \in UNION {Entries(d, c) : c \in SeqSet(arr)}}

GenPoolIds == 1..(cfg.nSrc + cfg.nExtra)

(* C1: after the normalizer, and in the briefing generate returns, the ids *)
(* of sources are exactly 1..len(sources), and len(sources) is the number  *)
(* of distinct ids in the citation arrays.                                 *)
C1_Contiguous ==
    /\ NormContiguous
    /\ result = "doc" => Contiguous(obj.doc)

(* A normalized document whose one source was id 2 of the pool, an id      *)
(* outside the pool having been cited as well.                             *)
C1_Witness ==
    /\ nStage = "normalized"
    /\ Len(nOut.sources) = 1
    /\ nOut.sources[1].art = 2
    /\ \E v \in SeqSet(AllCites(nDoc)) : IntOk(v) /\ v \notin PoolIds(nPool)

(* C2: every id in the citation arrays of the returned briefing has        *)
(* exactly one sources entry, each array cites the articles the draft (or  *)
(* the hotspot stage) cited there, and an id the LLM cited outside the     *)
(* pool is gone.                                                           *)
C2_RoundTrip ==
    result = "doc" =>
        /\ \A c \in SeqSet(BriefingCites(obj.doc)) : OneEntry(obj.doc, c)
        /\ \A f \in FlatFields :
              ArtsCited(obj.doc, obj.doc[f]) = SeqSet(obj.pre[f]) \cap GenPoolIds
        /\ Len(obj.doc.hotspots) = Len(obj.pre.hotspots)
        /\ \A i \in DOMAIN obj.doc.hotspots :
              ArtsCited(obj.doc, obj.doc.hotspots[i])
                  = SeqSet(obj.pre.hotspots[i]) \cap GenPoolIds
        /\ \A i \in DOMAIN obj.doc.keywords :
              ArtsCited(obj.doc, obj.doc.keywords[i])
                  \subseteq SeqSet(obj.pre.hotspots[i]) \cap GenPoolIds

(* A briefing whose draft cited an id outside the pool next to one inside, *)
(* with a hotspot.                                                         *)
C2_Witness ==
    /\ result = "doc"
    /\ \E v \in SeqSet(obj.pre.lede) : v \notin GenPoolIds
    /\ obj.doc.lede # <<>>
    /\ obj.doc.hotspots # <<>>
    /\ obj.doc.keywords # <<>>

(* C3, as stated: every source id of the returned briefing, those of       *)
(* article_summaries included, has exactly one sources entry, and that     *)
(* entry describes the article the id was assigned to.  Summary i carries  *)
(* the id given to finance article i when the material was built.          *)
C3_SummariesResolve ==
    result = "doc" =>
        /\ \A c \in SeqSet(BriefingCites(obj.doc)) : OneEntry(obj.doc, c)
        /\ \A i \in DOMAIN perArticle :
              /\ OneEntry(obj.doc, perArticle[i].source_id)
              /\ ArtsCited(obj.doc, <<perArticle[i].source_id>>) = {i}

(* C4, as stated: normalizing a normalized document again with its own     *)
(* sources changes nothing, and neither does normalizing the returned      *)
(* briefing.                                                               *)
C4_Idempotent ==
    /\ NormIdempotent
    /\ result = "doc" => Normalize(obj.doc, obj.doc.sources) = obj.doc

(* C4, amended: normalizing a normalized document again with its own       *)
(* sources changes nothing; normalizing the returned briefing changes      *)
(* nothing when the draft's recent_hotwords cite nothing or the briefing   *)
(* has no keywords.                                                        *)
C4_IdempotentAmended ==
    /\ NormIdempotent
    /\ (result = "doc" /\ (FlattenRows(obj.doc.rhw) = <<>> \/ obj.doc.keywords = <<>>))
          => Normalize(obj.doc, obj.doc.sources) = obj.doc

(* A returned briefing with keywords and draft citations that were         *)
(* renumbered.                                                             *)
C4_Witness ==
    /\ result = "doc"
    /\ obj.doc.keywords # <<>>
    /\ FlattenRows(obj.doc.rhw) = <<>>
    /\ obj.doc.lede # <<>>
    /\ obj.doc.lede # obj.pre.lede

(* C5: generate returns a briefing or null, whatever the LLM calls do; it  *)
(* never raises.                                                           *)
C5_NeverRaises == result # "raised" /\ (pc = "done" => result \in {"null", "doc"})

(* A briefing returned although the hotspot stage met an exception.        *)
C5_Witness == pc = "done" /\ result = "doc" /\ obj.caught

(***************************************************************************)
(* Claims about the drafting loop.                                         *)
(***************************************************************************)
LoopEnded == pc \in {"accepted", "exhausted", "unparseable", "done"} /\ cfg.nFin > 0

Fails(j) == j.parsed /\ (j.dup \/ j.local)

(* C6, as stated: generate returns null only for an empty finance pool or  *)
(* when the first drafting call gave no usable output; once the first call *)
(* gave a parseable draft the result is a briefing.                        *)
C6_NullOnlyAtFirstCall ==
    /\ result = "null" => (cfg.nFin = 0 \/ ~hist.firstParsed)
    /\ (pc = "done" /\ hist.firstParsed) => result = "doc"

(* C7: three parseable drafts, each judged a duplicate or too local, end   *)
(* in a briefing built from the third draft.                               *)
C7_ExhaustedStillReturns ==
    /\ hist.rejects = MaxAttempts => pc \in {"exhausted", "done"}
    /\ (pc = "exhausted" /\ hist.rejects = MaxAttempts) =>
          (raw.text = "json" /\ raw.at = MaxAttempts)
    /\ (pc = "done" /\ hist.rejects = MaxAttempts) =>
          /\ result = "doc"
          /\ obj.exit = "exhausted"
          /\ obj.from = MaxAttempts

(* A briefing returned after three rejected drafts, the last too local.    *)
C7_Witness ==
    /\ pc = "done"
    /\ hist.rejects = MaxAttempts
    /\ lastReason = "too_local"
    /\ result = "doc"
    /\ obj.from = MaxAttempts

(* C8, as stated: the drafting LLM is called once to three times and the   *)
(* loop goes on to another attempt only after a draft that fails the       *)
(* duplicate check or the too-local check.                                 *)
C8_StopsAtFirstPassingDraft ==
    /\ calls = attempt /\ calls <= MaxAttempts
    /\ LoopEnded => calls >= 1
    /\ pc = "draft" => attempt < MaxAttempts
    /\ (pc = "draft" /\ attempt > 0) => Fails(last)
    /\ pc = "accepted" => (last.parsed /\ ~Fails(last))

(* C8, amended: the drafting LLM is called once to three times; the loop   *)
(* goes on to another attempt only after a draft without focus_topic or    *)
(* one that fails a check; it ends in Done at a draft with a focus_topic   *)
(* that passes both, at a call that gives nothing or text without JSON, or *)
(* after the third attempt.                                                *)
C8_LoopBounded ==
    /\ calls = attempt /\ calls <= MaxAttempts
    /\ LoopEnded => calls >= 1
    /\ pc = "draft" => attempt < MaxAttempts
    /\ (pc = "draft" /\ attempt > 0) => (last.parsed /\ (~last.topic \/ Fails(last)))
    /\ pc = "accepted" => (last.parsed /\ last.topic /\ ~Fails(last))
    /\ pc = "exhausted" =>
          (attempt = MaxAttempts /\ last.parsed /\ (~last.topic \/ Fails(last)))
    /\ pc = "unparseable" => (raw.text = "text" /\ raw.at = attempt)
    /\ (pc = "done" /\ result = "null" /\ cfg.nFin > 0) => raw.text = ""

(* The loop ran out on a draft that passes both checks but has no          *)
(* focus_topic.                                                            *)
C8_Witness ==
    /\ pc = "exhausted"
    /\ calls = MaxAttempts
    /\ ~last.topic
    /\ ~Fails(last)

C10_StyleDedupe ==
    \A n \in DOMAIN reports :
        reports[n] \in Styles =>
            \A m \in {n - 1, n - 2} \cap DOMAIN reports : reports[m] # reports[n]

(* Three days in a row with a focus style, a fourth generated after them.  *)
C10_Witness ==
    /\ Len(reports) >= 4
    /\ \A n \in 1..4 : reports[n] \in Styles
    /\ reports[4] = reports[1]

(***************************************************************************)
(* Claims about the one-liner cache.                                       *)
(***************************************************************************)
FirstSeen(a, v) == (CHOOSE e \in seen : e.aid = a /\ e.ver = v).rows

C12_OneRowPerKey ==
    proc # <<>> => \A a \in 1..MaxArt, v \in Versions : RowCountOf(store, a, v) <= 1

(***************************************************************************)
(* C13: when fewer than MinClusterItems articles of the combined pool      *)
(* qualify for clustering, the returned briefing has no recent hotspot and *)
(* the clustering call was not made.                                       *)
(***************************************************************************)
C13_FloorSkipsClustering ==
    (pc = "done" /\ result = "doc" /\ Cardinality(obj.qual) < MinClusterItems)
        => /\ obj.doc.hotspots = <<>>
           /\ obj.pre.hotspots = <<>>
           /\ ~obj.clustered

C13_Witness ==
    /\ pc = "done"
    /\ result = "doc"
    /\ Cardinality(obj.qual) = MinClusterItems - 1
    /\ obj.doc.hotspots = <<>>
    /\ ~obj.clustered

(***************************************************************************)
(* C14: every recent hotspot of the briefing cites at least two distinct   *)
(* sources, each of them an article of the combined pool that was in the   *)
(* clustering input, before and after the sources are renumbered.          *)
(***************************************************************************)
HotRowOk(d, row, m, qual) ==
    /\ Len(row) >= 2
    /\ Len(row) <= MaxSourceIds
    /\ Cardinality(SeqSet(row)) = Len(row)
    /\ \A c \in SeqSet(row) : OneEntry(d, c)
    /\ Cardinality(ArtsCited(d, row)) = Len(row)
    /\ ArtsCited(d, row) \subseteq (1..m) \cap qual

C14_HotspotsCiteInputs ==
    fnStage = "hot_done" =>
        /\ Len(fnOut.doc.hotspots) = Len(fnOut.pre.hotspots)
        /\ \A i \in DOMAIN fnOut.pre.hotspots :
              /\ Len(fnOut.pre.hotspots[i]) >= 2
              /\ Cardinality(SeqSet(fnOut.pre.hotspots[i])) = Len(fnOut.pre.hotspots[i])
              /\ SeqSet(fnOut.pre.hotspots[i]) \subseteq (1..fnIn.m) \cap fnIn.h.qual
        /\ \A i \in DOMAIN fnOut.doc.hotspots :
              /\ HotRowOk(fnOut.doc, fnOut.doc.hotspots[i], fnIn.m, fnIn.h.qual)
              /\ ArtsCited(fnOut.doc, fnOut.doc.hotspots[i]) = SeqSet(fnOut.pre.hotspots[i])

C14_Witness ==
    /\ fnStage = "hot_done"
    /\ fnOut.doc.hotspots # <<>>
    /\ fnOut.doc.hotspots # fnOut.pre.hotspots
    /\ \E c \in SeqSet(fnIn.h.evs[1].ids) : c \in (1..fnIn.m) \ fnIn.h.qual

(***************************************************************************)
(* C15: a by_the_numbers row is kept only if every number extracted from   *)
(* its value is, normalized, among the normalized allowed numbers; a row   *)
(* with a number outside them is removed whole and recorded as dropped;    *)
(* the kept rows are rows of the input, unmodified and in their order.     *)
(***************************************************************************)
AllAllowed(row, allowed) ==
    \A k \in DOMAIN ExtractNumberSpansLoose(row.value) :
        NormalizeNumberString(ExtractNumberSpansLoose(row.value)[k])
            \in {NormalizeNumberString(allowed[j]) : j \in DOMAIN allowed}

IsSubsequence(a, b) ==
    \E f \in [DOMAIN a -> DOMAIN b] :
        /\ \A i \in DOMAIN a : a[i] = b[f[i]]
        /\ \A i, j \in DOMAIN a : i < j => f[i] < f[j]

C15_StripKeepsOnlyVerified ==
    fnStage = "strip_done" =>
        /\ IsSubsequence(fnOut.kept, fnIn.rows)
        /\ \A i \in DOMAIN fnOut.kept :
              fnOut.kept[i].isStr => AllAllowed(fnOut.kept[i], fnOut.allowed)
        /\ \A i \in DOMAIN fnIn.rows :
              (fnIn.rows[i].kind = "dict" /\ fnIn.rows[i].isStr) =>
                 IF AllAllowed(fnIn.rows[i], fnOut.allowed)
                 THEN InSeq(fnOut.kept, fnIn.rows[i])
                 ELSE /\ ~InSeq(fnOut.kept, fnIn.rows[i])
                      /\ \E k \in DOMAIN fnOut.dropped :
                            fnOut.dropped[k].indicator = fnIn.rows[i].indicator

C15_Witness ==
    /\ fnStage = "strip_done"
    /\ fnIn.material = <<"y", "5">>
    /\ Len(fnIn.rows) = 2
    /\ fnIn.rows[1].value = <<"8", "w">>
    /\ fnIn.rows[2].value = <<"Y", "5">>
    /\ fnOut.kept = <<fnIn.rows[2]>>
    /\ Len(fnOut.dropped) = 1

(***************************************************************************)
(* C16: _summarize_per_article returns one entry per source of the finance *)
(* pool, in order, each with a summary of 1 to 120 characters and a title  *)
(* of at most 120 characters, whatever the calls did.                      *)
(***************************************************************************)
C16_SummaryNonEmpty ==
    fnStage = "sum_done" =>
        /\ Len(fnOut) = Len(fnIn)
        /\ \A i \in DOMAIN fnOut :
              /\ fnOut[i].source_id = i
              /\ fnOut[i].title <= SummaryCut
              /\ fnOut[i].summary <= SummaryCut
              /\ fnOut[i].summary >= 1

(***************************************************************************)
(* C17: _prefilter_articles returns, by descending hits, the articles that *)
(* meet the threshold when at least MinBreadth do, and otherwise the       *)
(* min(n, FallbackTop) articles with the most hits; every article meeting  *)
(* the threshold is returned, and at least min(n, MinBreadth) are.         *)
(***************************************************************************)
HitsAt(i) == FinanceKeywordHits(fnIn.articles[i])

Qualifying == {i \in DOMAIN fnIn.articles : HitsAt(i) >= fnIn.minHits}

C17_PrefilterBreadth ==
    fnStage = "pre_done" =>
        LET res == fnOut.result
            n == Len(fnIn.articles)
        IN /\ SeqSet(res) \subseteq 1..n
           /\ Cardinality(SeqSet(res)) = Len(res)
           /\ \A i, j \in DOMAIN res : i < j => HitsAt(res[i]) >= HitsAt(res[j])
           /\ Cardinality(Qualifying) >= MinBreadth => SeqSet(res) = Qualifying
           /\ Cardinality(Qualifying) < MinBreadth =>
                 /\ Len(res) = Slice(n, FallbackTop)
                 /\ \A i \in SeqSet(res), j \in (1..n) \ SeqSet(res) :
                       HitsAt(i) >= HitsAt(j)
           /\ Qualifying \subseteq SeqSet(res)
           /\ Len(res) >= Slice(n, MinBreadth)

C17_Witness ==
    /\ fnStage = "pre_done"
    /\ Len(fnIn.articles) > FallbackTop
    /\ Qualifying # {}
    /\ Cardinality(Qualifying) < MinBreadth
    /\ Len(fnOut.result) = FallbackTop
    /\ fnOut.result[1] # 1

(***************************************************************************)
(* C18: when generate returned null in an invocation of                    *)
(* generate_daily_report, no report is stored for the target date.         *)
(***************************************************************************)
C18_NullPersistsNothing ==
    lastBriefing = "null" => reports[Len(reports)] = NoReport

(***************************************************************************)
(* C19: at most one collection run executes at a time; a trigger that      *)
(* found the lock held started no run; the lock is held only while a run   *)
(* executes, so it is free once the run has ended, however it ended.       *)
(***************************************************************************)
C19_OneCollectionAtATime ==
    task # <<>> =>
        /\ Cardinality(Executing) <= 1
        /\ lock <=> Executing # {}
        /\ \A t \in DOMAIN task : task[t].saw => task[t].st = "refused"

C19_Witness ==
    /\ task # <<>>
    /\ \E t \in DOMAIN task : task[t].st = "ended" /\ task[t].how = "exception"
    /\ \E t \in DOMAIN task : task[t].st = "skipped"
    /\ \E t \in DOMAIN task : task[t].st = "running"

(***************************************************************************)
(* C20: the new id of a cited source of the pool is its rank by first      *)
(* occurrence in the traversal lede, why, big picture, by_the_numbers,     *)
(* keywords, recent_hotwords, recent_hotspots; an id outside the pool gets *)
(* no new id and leaves no gap; every array is left with the new ids of    *)
(* its ids of the pool, in the order of their first occurrence in it,      *)
(* without repeats.                                                        *)
(***************************************************************************)
FirstAt(s, c) == CHOOSE i \in DOMAIN s : s[i] = c /\ \A j \in 1..(i - 1) : s[j] # c

CitedInPool == SeqSet(AllCites(nDoc)) \cap PoolIds(nPool)

Rank(c) ==
    Cardinality({d \in CitedInPool :
                    FirstAt(AllCites(nDoc), d) <= FirstAt(AllCites(nDoc), c)})

OldOf(n) == CHOOSE c \in CitedInPool : Rank(c) = n

ArrayRemapped(a, o) ==
    /\ Cardinality(SeqSet(o)) = Len(o)
    /\ SeqSet(o) = {Rank(c) : c \in SeqSet(a) \cap PoolIds(nPool)}
    /\ \A i, j \in DOMAIN o : i < j => FirstAt(a, OldOf(o[i])) < FirstAt(a, OldOf(o[j]))

C20_RankByFirstOccurrence ==
    nStage = "normalized" =>
        /\ Len(nOut.sources) = Cardinality(CitedInPool)
        /\ \A c \in CitedInPool :
              /\ Rank(c) \in DOMAIN nOut.sources
              /\ nOut.sources[Rank(c)] = [id |-> Rank(c), art |-> c]
        /\ \A f \in FlatFields : ArrayRemapped(nDoc[f], nOut[f])
        /\ \A f \in RowFields :
              /\ Len(nOut[f]) = Len(nDoc[f])
              /\ \A i \in DOMAIN nDoc[f] : ArrayRemapped(nDoc[f][i], nOut[f][i])

C20_Witness ==
    /\ nStage = "normalized"
    /\ nDoc.lede = <<MaxPool + 1, 2>>
    /\ nDoc.hotspots = <<<<1>>>>
    /\ nOut.lede = <<1>>
    /\ nOut.hotspots = <<<<2>>>>

(***************************************************************************)
(* C21: a draft whose focus topic equals a recent topic is judged a        *)
(* duplicate and sent to the duplicate retry without the classification    *)
(* call; the call is made only without an exact match and with recent      *)
(* topics; a failed call means "not duplicate".                            *)
(***************************************************************************)
C21_ExactMatchShortCircuits ==
    (pc # "off" /\ last.parsed /\ last.topic) =>
        /\ last.exact => (last.dup /\ ~last.called /\ lastReason = "semantic_dup")
        /\ last.called => (~last.exact /\ cfg.recent)
        /\ (last.called /\ last.failed) => ~last.dup
        /\ (cfg.recent /\ ~last.exact) => last.called

C21_Witness ==
    /\ pc = "draft"
    /\ last.parsed
    /\ last.exact
    /\ last.dup
    /\ ~last.called
    /\ lastReason = "semantic_dup"
    /\ calls = 2

(***************************************************************************)
(* C22: the finance pool of _build_material has the ids 1..Nf in insertion *)
(* order; the combined pool keeps those entries and gives the appended     *)
(* articles the ids Nf+1, Nf+2, ... in input order, skipping an article    *)
(* whose URL is empty or already in the pool; so the ids of the combined   *)
(* pool are unique and no appended entry shares its URL with another entry.*)
(***************************************************************************)
PoolKept ==
    {k \in 1..Len(fnIn.all) :
        /\ fnIn.all[k] # ""
        /\ \A i \in 1..Len(fnOut.fin) : fnOut.fin[i].url # fnIn.all[k]
        /\ \A j \in 1..(k - 1) : fnIn.all[j] # fnIn.all[k]}

C22_PoolIds ==
    /\ fnStage \in {"pool_fin", "pool_done"} =>
          /\ Len(fnOut.fin) <= Len(fnIn.fin)
          /\ \A i \in 1..Len(fnOut.fin) :
                fnOut.fin[i].id = i /\ fnOut.fin[i].url = fnIn.fin[i].url
    /\ fnStage = "pool_done" =>
          LET p == fnOut.pool
              nf == Len(fnOut.fin) IN
          /\ Len(p) = nf + Cardinality(PoolKept)
          /\ \A i \in 1..nf : p[i] = fnOut.fin[i]
          /\ \A i \in 1..Len(p) : p[i].id = i
          /\ \A i \in (nf + 1)..Len(p) :
                \E k \in PoolKept :
                    /\ Cardinality({j \in PoolKept : j < k}) = i - nf - 1
                    /\ p[i].url = fnIn.all[k]
          /\ \A i, j \in 1..Len(p) : (i # j) => p[i].id # p[j].id
          /\ \A i \in (nf + 1)..Len(p) : \A j \in 1..Len(p) :
                (i # j) => p[i].url # p[j].url

C22_Witness ==
    /\ fnStage = "pool_done"
    /\ Len(fnOut.fin) = 1 /\ Len(fnIn.fin) = 2
    /\ Len(fnOut.pool) = 2 /\ Len(fnIn.all) = 3
    /\ fnIn.all[1] = fnOut.fin[1].url
    /\ fnIn.all[2] = ""
    /\ fnOut.pool[2] = [id |-> 2, url |-> fnIn.all[3]]

(***************************************************************************)
(* C23: rows are only added, or rewritten in place, for articles the       *)
(* writing invocation found no row for and under its own prompt version:   *)
(* an invocation under a new version adds a row beside the old version's   *)
(* row and leaves that one as it was; no step removes a row or changes a   *)
(* row of another version, and an invocation changes no row it had a cache *)
(* hit for.                                                                *)
(***************************************************************************)
Changed == {r \in Rows : store'[r] # store[r]}

C23_VersionsIsolated ==
    [][Changed # {} =>
          \E q \in Procs :
              /\ proc[q].pc = "write" /\ proc'[q] # proc[q]
              /\ \A r \in Changed :
                    /\ r.ver = proc[q].ver
                    /\ r.aid \in proc[q].need
                    /\ r.aid \notin (proc[q].arts \ proc[q].called)
                    /\ RowCountOf(store', r.aid, r.ver) >= RowCountOf(store, r.aid, r.ver)
              /\ \/ \E r \in Changed : Changed = {r} /\ store'[r] = store[r] + 1
                 \/ \E r, o \in Changed :
                       /\ Changed = {r, o} /\ r.aid = o.aid
                       /\ store'[r] = store[r] + 1 /\ store'[o] = store[o] - 1]_vars

C23_Witness ==
    /\ proc # <<>>
    /\ ~raced
    /\ store[[aid |-> 1, ver |-> "v1", val |-> "a"]] = 1
    /\ store[[aid |-> 1, ver |-> "v2", val |-> "b"]] = 1
    /\ RowCountOf(store, 1, "v1") = 1
    /\ \E q \in Procs :
          proc[q].pc = "done" /\ proc[q].ver = "v2" /\ 1 \in proc[q].called

(***************************************************************************)
(* C24: every row of _extract_recent_hotspots has hotness                  *)
(* min(100, 20 + 18 * coverage_docs + 10 * coverage_accounts), the counts  *)
(* being those of the distinct ids it cites and of the distinct non-empty  *)
(* account names of those sources, whatever hotness the clustering answer  *)
(* carried; so 56 <= hotness <= 100 and coverage_accounts <= coverage_docs.*)
(***************************************************************************)
C24_HotnessLocal ==
    fnStage \in {"kw_rows", "kw_norm", "kw_done"} =>
        \A i \in DOMAIN fnOut.rows :
            LET r == fnOut.rows[i]
                score == 20 + 18 * r.docs + 10 * r.accs IN
            /\ r.docs = Cardinality({r.ids[k] : k \in DOMAIN r.ids})
            /\ r.accs = Cardinality({a \in {"A", "B", "C"} :
                            \E k \in DOMAIN r.ids : fnIn.account[r.ids[k]] = a})
            /\ r.hotness = (IF score > 100 THEN 100 ELSE score)
            /\ 56 <= r.hotness /\ r.hotness <= 100
            /\ r.accs <= r.docs

(* A row at the cap, a row at the floor, and an answer that carried        *)
(* another hotness.                                                        *)
C24_Witness ==
    /\ fnStage = "kw_rows"
    /\ fnIn.llmHot = 999
    /\ \E i, j \in DOMAIN fnOut.rows :
          /\ fnOut.rows[i].hotness = 100 /\ fnOut.rows[i].accs = 3
          /\ fnOut.rows[j].hotness = 66 /\ fnOut.rows[j].accs = 1

(***************************************************************************)
(* C25, as stated: the keywords of a returned briefing are the first       *)
(* min(3, n) of its recent_hotspots, that list being in non-increasing     *)
(* hotness order; word = event, weight = hotness, citations =              *)
(* len(source_ids), at most 6 source_ids, and the snippets (at most 4) are *)
(* the titles of the first 2 articles the hotspot cites, the cited article *)
(* of an id being the one the briefing's sources list gives that id.       *)
(***************************************************************************)
CitedTitles(row) ==
    LET n == IF Len(row.ids) < 2 THEN Len(row.ids) ELSE 2
        cited == [k \in 1..n |-> fnOut.sources[row.ids[k]].art]
        HasTitle(a) == a \notin fnIn.untitled
    IN SelectSeq(cited, HasTitle)

KeywordsShape ==
    LET hs == fnOut.hotspots
        kws == fnOut.keywords IN
    /\ Len(kws) = (IF Len(hs) < 3 THEN Len(hs) ELSE 3)
    /\ \A i \in 1..(Len(hs) - 1) : hs[i].hotness >= hs[i + 1].hotness
    /\ \A i \in DOMAIN kws :
          /\ kws[i].word = hs[i].event
          /\ kws[i].weight = hs[i].hotness
          /\ kws[i].citations = Len(hs[i].ids)
          /\ kws[i].ids = hs[i].ids
          /\ Len(kws[i].ids) <= 6
          /\ Len(kws[i].snippets) <= 4

C25_KeywordsOfHottest ==
    fnStage = "kw_done" =>
        /\ KeywordsShape
        /\ \A i \in DOMAIN fnOut.keywords :
              fnOut.keywords[i].snippets = CitedTitles(fnOut.hotspots[i])

(***************************************************************************)
(* Claims about sanitize_sensitive.                                        *)
(***************************************************************************)
ScannedTexts(doc) ==
    ({doc.title, doc.lede, doc.why} \cup SeqSet(doc.btn) \cup SeqSet(doc.hotwords))
        \ {NotDict, NotStr}

Occurred == {p \in SeqSet(fnIn.phrases) : \E t \in ScannedTexts(fnIn.doc) : Contains(t, p)}

Sanitized ==
    /\ \A p \in SeqSet(fnIn.phrases) : \A t \in ScannedTexts(fnOut.doc) : ~Contains(t, p)
    /\ \A f \in {"title", "lede", "why"} :
          (\E p \in Occurred : Contains(fnIn.doc[f], p)) =>
              Contains(fnOut.doc[f], MaskToken)
    /\ \A f \in {"title", "lede", "why"} :
          (~\E p \in Occurred : Contains(fnIn.doc[f], p)) => fnOut.doc[f] = fnIn.doc[f]
    /\ SeqSet(fnOut.hits) = Occurred
    /\ Occurred = {} => (fnOut.doc = fnIn.doc /\ fnOut.hits = <<>>)

(* C27, as stated: after sanitize_sensitive no scanned field contains a    *)
(* configured phrase, every occurrence is replaced by the masking token,   *)
(* the hit list is the set of configured phrases that occurred, and a      *)
(* document in which none occurs is returned unchanged with no hit.        *)
C27_NoPhraseLeft == fnStage = "mask_done" => Sanitized

TokenFree ==
    \A p \in SeqSet(fnIn.phrases) : SeqSet(p) \cap SeqSet(MaskToken) = {}

(* C27, amended: the same, for a configured list none of whose phrases     *)
(* shares a character with the masking token.                              *)
C27_NoPhraseLeftTokenFree == (fnStage = "mask_done" /\ TokenFree) => Sanitized

(* Two overlapping phrases hit one field, a row that is not an object is   *)
(* in the table.                                                           *)
C27_Witness ==
    /\ fnStage = "mask_done"
    /\ TokenFree
    /\ Len(fnOut.hits) = 2
    /\ fnIn.doc.title = <<"a", "b", "a">>
    /\ fnOut.doc.title = <<"m", "k", "a">>
    /\ fnIn.doc.why = <<"a">> /\ fnOut.doc.why = <<"a">>

(***************************************************************************)
(* C26: every row persisted by get_or_compute_one_liners, by the insert or *)
(* by the update of the row found, has a one_liner of at most 20           *)
(* characters and each tag an integer in 0..3; when the answer carries no  *)
(* boolean keep, the stored keep is (finance + minsheng + tech >=          *)
(* threshold), the threshold being 2 by default and clamped to 1..6.       *)
(***************************************************************************)
ThresholdOf(env) ==
    IF env.k # "str" THEN 2 ELSE IF env.n < 1 THEN 1 ELSE IF env.n > 6 THEN 6 ELSE env.n

C26_RowWithinLimits ==
    fnStage = "row_done" =>
        \A i \in DOMAIN fnOut.stored :
            LET r == fnOut.stored[i] IN
            /\ Len(r.oneLiner) <= 20
            /\ \A f \in {"finance", "minsheng", "tech"} : r.tags[f] \in 0..3
            /\ fnIn.it.keep = "none" =>
                  (r.keep <=> (r.tags.finance + r.tags.minsheng + r.tags.tech
                                  >= ThresholdOf(fnIn.env)))
            /\ fnIn.it.keep # "none" => (r.keep <=> fnIn.it.keep = "true")

(* An over-long one_liner and an out-of-range tag stored through the       *)
(* update path, with keep from the default rule under a clamped threshold. *)
C26_Witness ==
    /\ fnStage = "row_done"
    /\ fnOut.path = "update"
    /\ Len(fnIn.it.oneLiner) > 20
    /\ fnIn.it.tags.finance.n = 5 /\ fnIn.it.tags.minsheng.n = 7
    /\ fnIn.it.keep = "none"
    /\ fnIn.env = [k |-> "str", n |-> 9]
    /\ fnOut.stored # <<>>
    /\ Len(fnOut.stored[1].oneLiner) = 20
    /\ fnOut.stored[1].tags.finance = 3
    /\ fnOut.stored[1].keep

(***************************************************************************)
(* C28: after any sequence of regenerate-daily requests (forced or not,    *)
(* from the admin API or the batch tool), worker runs, cancels and         *)
(* reclaims, handled one after another, at most one job per target date is *)
(* PENDING or RUNNING; a request without force that finds such a job, not  *)
(* stale, creates none and answers with that job's id; a forced request    *)
(* that finds one marks it FAILED and creates the new PENDING job.         *)
(***************************************************************************)
C28_OneActiveJobPerDate ==
    jobLog # <<>> =>
        /\ \A d \in JobDates :
              Cardinality({j \in DOMAIN jobs : jobs[j].date = d
                              /\ jobs[j].status \in {"PENDING", "RUNNING"}}) <= 1
        /\ jobLog.op \in {"admin", "cli"} =>
              LET b == jobLog.before
                  act == {j \in DOMAIN b : b[j].date = jobLog.date
                             /\ b[j].status \in {"PENDING", "RUNNING"}} IN
              /\ (act # {} /\ ~jobLog.force /\ \A j \in act : ~b[j].stale) =>
                    jobs = b /\ jobLog.ret \in act
              /\ (act # {} /\ jobLog.force) =>
                    /\ Len(jobs) = Len(b) + 1
                    /\ \A j \in act : jobs[j].status = "FAILED"
                    /\ \A j \in DOMAIN b : j \notin act => jobs[j] = b[j]
                    /\ jobs[Len(jobs)].status = "PENDING"
                    /\ jobs[Len(jobs)].date = jobLog.date
                    /\ jobLog.ret = Len(jobs)

(* A forced request of the batch tool supersedes a job the worker left     *)
(* RUNNING, while the other date has a job waiting.                        *)
C28_Witness ==
    /\ jobLog # <<>>
    /\ jobLog.op = "cli" /\ jobLog.force
    /\ Len(jobs) = 3
    /\ jobLog.before[1].status = "RUNNING" /\ jobLog.before[1].date = jobLog.date
    /\ jobs[1].status = "FAILED"
    /\ jobs[2].status = "PENDING" /\ jobs[2].date # jobLog.date
    /\ jobs[3].status = "PENDING" /\ jobs[3].date = jobLog.date

(***************************************************************************)
(* C29, as stated: when get_or_compute_one_liners returns normally, every  *)
(* article it was given has a row for the prompt version, the title row    *)
(* when the batch call failed or left the article out; an invocation that  *)
(* follows for the same article makes no LLM call for it.                  *)
(***************************************************************************)
TitleRowOnly(a, v) ==
    /\ store[[aid |-> a, ver |-> v, val |-> "t"]] = 1
    /\ RowCountOf(store, a, v) = 1

C30_VoiceIsSticky ==
    \A i \in DOMAIN workerLog :
        workerLog[i].briefing = "null" =>
            /\ dailyFormat = "voice"
            /\ \A j \in DOMAIN workerLog :
                  j > i =>
                     /\ workerLog[j].briefing = "none"
                     /\ workerLog[j].stored \in {VoiceReport, NoReport}
                     /\ ~workerLog[j].finance => workerLog[j].stored = NoReport

(* A worker that produced a briefing, then got null and fell back, then    *)
(* stored a voice report for a later day without calling generate.         *)
C30_Witness ==
    /\ Len(workerLog) >= 3
    /\ workerLog[1].briefing = "doc"
    /\ workerLog[2].briefing = "null"
    /\ workerLog[2].stored = VoiceReport
    /\ workerLog[3].finance
    /\ workerLog[3].briefing = "none"
    /\ workerLog[3].stored = VoiceReport
====
